---- MODULE Spec2Model ----
(***************************************************************************)
(* State-machine model of the namespace store reconciler                   *)
(* (pkg/namespacestore/reconciler.go) and of the helpers of package util   *)
(* it calls.  One Reconcile call is a sequence of steps, one step per call *)
(* to the cluster API or to the remote storage-management API; the local   *)
(* computation between two such calls belongs to the step that precedes    *)
(* it.  The cluster store, the secret, the parent system, the clock and    *)
(* the remote system are the environment.                                  *)
(***************************************************************************)
EXTENDS Naturals, Sequences, FiniteSets, TLC

VARIABLES
    store,      \* cluster store: the NamespaceStore records, by name
    nooBaa,     \* cluster store: TRUE iff the parent NooBaa system exists
    secrets,    \* cluster store: the secrets, by name
    now,        \* the clock, in minutes
    remote,     \* the remote system: accounts, connections, resources, pools
    rc,         \* the Reconciler of each record: position and fields
    hist,       \* per record: what earlier Reconcile calls did
    comb,       \* util.CombineErrors: the errors passed, the position, the result
    hac,        \* the high availability controller: nodes, pods, its Reconcile call
    kms         \* util.ValidateConnectionDetails: its inputs, the position, the result

\* the state the namespace store reconciler works on
nsvars == <<store, nooBaa, secrets, now, remote, rc, hist>>
\* the state of the other components
others == <<comb, hac, kms>>

vars == <<store, nooBaa, secrets, now, remote, rc, hist, comb, hac, kms>>

-----------------------------------------------------------------------------
(* Bounds of the model *)

\* the clock stops here
MaxNow == 6
\* the remote system registers no more connections than this
MaxConns == 3
\* CombineErrors is passed no more errors than this
MaxErrs == 3

-----------------------------------------------------------------------------
(* Program constants *)

\* 5 * time.Minute, the age below which a record is "young"
GraceMinutes == 5
\* 3 * time.Second, the retry delay
RequeueSeconds == 3

Records == {"ns1", "ns2"}
SecretNames == {"s1", "s2"}

Finalizer == "noobaa.io/finalizer"

\* nbv1.NamespaceStorePhase
PhaseNew == ""
PhaseVerifying == "Verifying"
PhaseConnecting == "Connecting"
PhaseCreating == "Creating"
PhaseReady == "Ready"
PhaseRejected == "Rejected"
PhaseDeleting == "Deleting"

\* nbv1.NSStoreType
NSStoreTypeAWSS3 == "aws-s3"
NSStoreTypeS3Compatible == "s3-compatible"
NSStoreTypeIBMCos == "ibm-cos"
NSStoreTypeAzureBlob == "azure-blob"
NSStoreTypeNSFS == "nsfs"

\* corev1 event types
EventTypeNormal == "Normal"
EventTypeWarning == "Warning"

\* modeInfoMap: the phase and the severity of each known mode
modeInfoMap ==
    [m \in {"OPTIMAL", "IO_ERRORS", "STORAGE_NOT_EXIST", "AUTH_FAILED"} |->
        CASE m = "OPTIMAL"           -> [Phase |-> PhaseReady, Severity |-> EventTypeNormal]
          [] m = "IO_ERRORS"         -> [Phase |-> PhaseRejected, Severity |-> EventTypeWarning]
          [] m = "STORAGE_NOT_EXIST" -> [Phase |-> PhaseRejected, Severity |-> EventTypeWarning]
          [] m = "AUTH_FAILED"       -> [Phase |-> PhaseRejected, Severity |-> EventTypeWarning]]

-----------------------------------------------------------------------------
(* Errors.  kind "nil" is no error, "persistent" is *util.PersistentError, *)
(* "transient" is every other error value.                                 *)

NoError == [kind |-> "nil", reason |-> "", message |-> ""]

\* fmt.Errorf and the errors of the clients: not a *PersistentError
PlainError(message) == [kind |-> "transient", reason |-> "", message |-> message]

NewPersistentError(reason, message) ==
    [kind |-> "persistent", reason |-> reason, message |-> message]

\* variant: the type assertion never succeeds
IsPersistentError_Never(err) == FALSE

IsPersistentError(err) == err.kind = "persistent"

-----------------------------------------------------------------------------
(* Strings that the code inspects are sequences of characters.             *)

GraphicChars == {"A", "B"}
SpaceChars == {" "}
ControlChars == {"^A"}

IsGraphic(c) == c \in GraphicChars
IsSpace(c) == c \in SpaceChars

IsStringGraphicOrSpacesCharsOnly(s) ==
    \A i \in 1..Len(s) : IsGraphic(s[i]) \/ IsSpace(s[i])

-----------------------------------------------------------------------------
(* The secret: StringData, a map from key names to strings.                *)

SecretKeys == {"AWS_ACCESS_KEY_ID", "AWS_SECRET_ACCESS_KEY",
               "aws_access_key_id", "aws_secret_access_key",
               "AccessKey", "SecretKey",
               "IBM_COS_ACCESS_KEY_ID", "IBM_COS_SECRET_ACCESS_KEY",
               "AccountName", "AccountKey"}

\* the StringData of bundle.File_deploy_internal_secret_empty_yaml
EmptyStringData == [k \in SecretKeys |-> <<>>]

\* the first of the alternate names that has a value, else the empty string
FirstAlternate(data, names) ==
    IF \E i \in 1..Len(names) : data[names[i]] # <<>>
    THEN data[names[CHOOSE i \in 1..Len(names) :
                       /\ data[names[i]] # <<>>
                       /\ \A j \in 1..(i-1) : data[names[j]] = <<>>]]
    ELSE <<>>

fixAlternateKeysNames(data) ==
    LET access == IF data["AWS_ACCESS_KEY_ID"] = <<>>
                  THEN FirstAlternate(data, <<"aws_access_key_id", "AccessKey">>)
                  ELSE data["AWS_ACCESS_KEY_ID"]
        secret == IF data["AWS_SECRET_ACCESS_KEY"] = <<>>
                  THEN FirstAlternate(data, <<"aws_secret_access_key", "SecretKey">>)
                  ELSE data["AWS_SECRET_ACCESS_KEY"]
    IN  [data EXCEPT !["AWS_ACCESS_KEY_ID"] = access,
                     !["AWS_SECRET_ACCESS_KEY"] = secret]

-----------------------------------------------------------------------------
(* The endpoint of a spec is a string: a scheme ("" when the string has no *)
(* "scheme://" prefix), the rest of the string, and whether url.Parse      *)
(* accepts the rest.                                                       *)

NoEndpoint == [scheme |-> "", rest |-> "", parses |-> TRUE]

\* regexp.MatchString(`^\w+://`, endpoint)
MatchesScheme(e) == e.scheme # ""

\* "https://" + endpoint
PrefixHTTPS(e) == [e EXCEPT !.scheme = "https"]

\* url.Parse(endpoint) returns no error
Parses(e) == e.parses

\* u.String() of a parsed endpoint
URLString(scheme, host) == scheme \o "://" \o host

-----------------------------------------------------------------------------
(* The spec of a record.  The parameter block of the declared type is      *)
(* flattened: region and sslDisabled belong to aws-s3, endpoint and        *)
(* signatureVersion to s3-compatible and ibm-cos.                          *)

S3SignatureVersionV4 == "v4"
S3SignatureVersionV2 == "v2"

\* nb.EndpointType
EndpointTypeAws == "AWS"
EndpointTypeS3Compat == "S3_COMPATIBLE"
EndpointTypeIBMCos == "IBM_COS"
EndpointTypeAzure == "AZURE"

MkSpec(type, secret, endpoint, sig, region, ssl) ==
    [type |-> type, secret |-> secret, endpoint |-> endpoint,
     signatureVersion |-> sig, region |-> region, sslDisabled |-> ssl]

\* the secret a spec refers to ("" for none): the reference of the block of the type
GetNamespaceStoreSecret(spec) ==
    IF spec.type \in {NSStoreTypeAWSS3, NSStoreTypeS3Compatible,
                      NSStoreTypeIBMCos, NSStoreTypeAzureBlob}
    THEN spec.secret
    ELSE ""

\* nb.AddExternalConnectionParams; set = FALSE is the nil pointer
NilConn == [set |-> FALSE, name |-> "", endpoint_type |-> "", endpoint |-> "",
            identity |-> <<>>, secret |-> <<>>, auth_method |-> ""]

MkConn(name, et, ep, id, sec, auth) ==
    [set |-> TRUE, name |-> name, endpoint_type |-> et, endpoint |-> ep,
     identity |-> id, secret |-> sec, auth_method |-> auth]

\* the auth method of a signature version; "invalid" for an unknown version
AuthMethodOf(sig) ==
    CASE sig = S3SignatureVersionV4 -> "AWS_V4"
      [] sig = S3SignatureVersionV2 -> "AWS_V2"
      [] sig = ""                   -> ""
      [] OTHER                      -> "invalid"

\* variant: the error of url.Parse is dropped
EndpointOf_Unparsed(e) ==
    IF e = NoEndpoint
    THEN [err |-> NoError, endpoint |-> URLString("https", "127.0.0.1:6443"), left |-> e]
    ELSE LET e1 == IF MatchesScheme(e) THEN e ELSE PrefixHTTPS(e)
         IN  [err |-> NoError, endpoint |-> URLString(e1.scheme, e1.rest), left |-> e1]

\* the endpoint branch shared by the s3-compatible and ibm-cos cases:
\* [err, endpoint (the descriptor's), spec (the endpoint as left in the spec)]
EndpointOf(e) ==
    IF e = NoEndpoint
    THEN [err |-> NoError, endpoint |-> URLString("https", "127.0.0.1:6443"), left |-> e]
    ELSE LET e1 == IF MatchesScheme(e) THEN e ELSE PrefixHTTPS(e)
         IN  IF ~Parses(e1)
             THEN [err |-> NewPersistentError("InvalidEndpoint", "Invalid endpoint url"),
                   endpoint |-> "", left |-> e1]
             ELSE [err |-> NoError, endpoint |-> URLString(e1.scheme, e1.rest), left |-> e1]

\* variant: a control character in the identity or the secret is a plain error
CheckSecretChars_Plain(conn) ==
    IF ~IsStringGraphicOrSpacesCharsOnly(conn.identity) \/
       ~IsStringGraphicOrSpacesCharsOnly(conn.secret)
    THEN PlainError("Invalid secret containing non graphic characters")
    ELSE NoError

\* the final check of the identity and the secret of the descriptor
CheckSecretChars(conn) ==
    IF ~IsStringGraphicOrSpacesCharsOnly(conn.identity) \/
       ~IsStringGraphicOrSpacesCharsOnly(conn.secret)
    THEN NewPersistentError("InvalidSecret",
             "Invalid secret containing non graphic characters")
    ELSE NoError

\* MakeExternalConnectionParams of the record `name` with spec `spec` and the
\* secret StringData `data0`: [err, conn, spec], the spec as the call leaves it
MakeExternalConnectionParams(name, spec, data0) ==
    LET data == fixAlternateKeysNames(data0)
        fail(err, sp) == [err |-> err, conn |-> NilConn, spec |-> sp]
        done(conn, sp) ==
            IF CheckSecretChars(conn) # NoError
            THEN fail(CheckSecretChars(conn), sp)
            ELSE [err |-> NoError, conn |-> conn, spec |-> sp]
        s3like(et, idKey, secKey) ==
            IF AuthMethodOf(spec.signatureVersion) = "invalid"
            THEN fail(NewPersistentError("InvalidSignatureVersion",
                          "Invalid s3 signature version"), spec)
            ELSE LET ep == EndpointOf(spec.endpoint)
                     sp == [spec EXCEPT !.endpoint = ep.left]
                 IN  IF ep.err # NoError
                     THEN fail(ep.err, sp)
                     ELSE done(MkConn(name, et, ep.endpoint, data[idKey], data[secKey],
                                      AuthMethodOf(spec.signatureVersion)), sp)
    IN  CASE spec.type = NSStoreTypeAWSS3 ->
                done(MkConn(name, EndpointTypeAws,
                        URLString(IF spec.sslDisabled THEN "http" ELSE "https",
                                  IF spec.region # ""
                                  THEN "s3." \o spec.region \o ".amazonaws.com"
                                  ELSE "s3.amazonaws.com"),
                        data["AWS_ACCESS_KEY_ID"], data["AWS_SECRET_ACCESS_KEY"], ""),
                     spec)
          [] spec.type = NSStoreTypeS3Compatible ->
                s3like(EndpointTypeS3Compat, "AWS_ACCESS_KEY_ID", "AWS_SECRET_ACCESS_KEY")
          [] spec.type = NSStoreTypeIBMCos ->
                s3like(EndpointTypeIBMCos, "IBM_COS_ACCESS_KEY_ID",
                       "IBM_COS_SECRET_ACCESS_KEY")
          [] spec.type = NSStoreTypeAzureBlob ->
                done(MkConn(name, EndpointTypeAzure, "https://blob.core.windows.net",
                        data["AccountName"], data["AccountKey"], ""), spec)
          [] OTHER ->
                fail(NewPersistentError("InvalidType", "Invalid namespace store type"),
                     spec)

-----------------------------------------------------------------------------
(* The remote system as read_system reports it.                            *)

\* the connections of all accounts, in listing order
RECURSIVE AllConnections(_)
AllConnections(accounts) ==
    IF accounts = <<>> THEN <<>>
    ELSE Head(accounts).connections \o AllConnections(Tail(accounts))

\* variant: a listed connection matches only under the same name
SameTriple_AndName(c, conn) ==
    /\ c.name = conn.name
    /\ c.endpoint_type = conn.endpoint_type
    /\ c.endpoint = conn.endpoint
    /\ c.identity = conn.identity

\* the (endpoint-type, endpoint, identity) comparison of the reuse loop
SameTriple(c, conn) ==
    /\ c.endpoint_type = conn.endpoint_type
    /\ c.endpoint = conn.endpoint
    /\ c.identity = conn.identity

\* variant: no listed connection is ever matched
MatchIndex_None(conns, conn) == 0

\* the reuse loop: every match overwrites the one before, so the last match stays;
\* 0 when no connection matches
MatchIndex(conns, conn) ==
    IF \E i \in 1..Len(conns) : SameTriple(conns[i], conn)
    THEN CHOOSE i \in 1..Len(conns) :
            /\ SameTriple(conns[i], conn)
            /\ \A j \in (i+1)..Len(conns) : ~SameTriple(conns[j], conn)
    ELSE 0

\* variant: the resource handle of the record is never found
FindResource_None(resources, name) == ""

\* the name of the first resource handle called `name` ("" when there is none)
FindResource(resources, name) ==
    IF \E i \in 1..Len(resources) : resources[i].name = name THEN name ELSE ""

\* nb.CreateNamespaceResourceParams; set = FALSE is the nil pointer
NilCreate == [set |-> FALSE, name |-> "", connection |-> "", nsfs |-> FALSE]

\* variant: a record of the nsfs type is handled as the other types are
ReadSystemInfoResult_NoNSFS(sys, name, spec, data) ==
    LET nsr == FindResource(sys.namespace_resources, name)
        mk == MakeExternalConnectionParams(name, spec, data)
        conns == AllConnections(sys.accounts)
        k == MatchIndex(conns, mk.conn)
        conn == IF k = 0 THEN mk.conn ELSE [mk.conn EXCEPT !.name = conns[k].name]
    IN  IF mk.err # NoError
        THEN [err |-> mk.err, nsr |-> nsr, eci |-> NilConn, add |-> NilConn,
              create |-> NilCreate, spec |-> mk.spec]
        ELSE [err |-> NoError, nsr |-> nsr,
              eci |-> IF k = 0 THEN NilConn ELSE conns[k],
              add |-> conn,
              create |-> [set |-> TRUE, name |-> name,
                          connection |-> conn.name, nsfs |-> FALSE],
              spec |-> mk.spec]

\* the part of ReadSystemInfo after a successful read_system call:
\* [err, nsr, eci, add, create, spec]
ReadSystemInfoResult(sys, name, spec, data) ==
    LET nsr == FindResource(sys.namespace_resources, name)
    IN  IF spec.type = NSStoreTypeNSFS
        THEN [err |-> NoError, nsr |-> nsr, eci |-> NilConn, add |-> NilConn,
              create |-> [set |-> TRUE, name |-> name, connection |-> "", nsfs |-> TRUE],
              spec |-> spec]
        ELSE LET mk == MakeExternalConnectionParams(name, spec, data)
                 conns == AllConnections(sys.accounts)
                 k == MatchIndex(conns, mk.conn)
                 conn == IF k = 0 THEN mk.conn ELSE [mk.conn EXCEPT !.name = conns[k].name]
             IN  IF mk.err # NoError
                 THEN [err |-> mk.err, nsr |-> nsr, eci |-> NilConn, add |-> NilConn,
                       create |-> NilCreate, spec |-> mk.spec]
                 ELSE [err |-> NoError, nsr |-> nsr,
                       eci |-> IF k = 0 THEN NilConn ELSE conns[k],
                       add |-> conn,
                       create |-> [set |-> TRUE, name |-> name,
                                   connection |-> conn.name, nsfs |-> FALSE],
                       spec |-> mk.spec]

-----------------------------------------------------------------------------
(* util.CombineErrors.                                                     *)

RECURSIVE CombineLoop_FirstNonNil(_, _)
RECURSIVE CombineLoop(_, _)
\* variant: the first non-nil error is returned, persistent or not
CombineLoop_FirstNonNil(combined, errs) ==
    IF errs = <<>> THEN combined
    ELSE IF Head(errs) = NoError THEN CombineLoop_FirstNonNil(combined, Tail(errs))
    ELSE IF combined = NoError THEN CombineLoop_FirstNonNil(Head(errs), Tail(errs))
    ELSE CombineLoop_FirstNonNil(combined, Tail(errs))

\* the loop of CombineErrors over the errors left, `combined` being its variable
CombineLoop(combined, errs) ==
    IF errs = <<>> THEN combined
    ELSE IF Head(errs) = NoError THEN CombineLoop(combined, Tail(errs))
    ELSE IF combined = NoError THEN CombineLoop(Head(errs), Tail(errs))
    ELSE IF IsPersistentError(Head(errs)) /\ ~IsPersistentError(combined)
         THEN CombineLoop(Head(errs), Tail(errs))
         ELSE CombineLoop(combined, Tail(errs))

CombineErrors(errs) == CombineLoop(NoError, errs)

\* no call of CombineErrors
IdleComb == [pc |-> "idle", errs |-> <<>>, result |-> NoError]

-----------------------------------------------------------------------------
(* The high availability controller (pkg/hac/hac.go).                      *)

Nodes == {"n1", "n2"}
\* options.Namespace, the watched namespace
Namespace == "default"

\* the pods the cluster may run, in the order a list call gives them
PodPool ==
    << [name |-> "core",     namespace |-> Namespace, app |-> "noobaa", node |-> "n1"],
       [name |-> "db",       namespace |-> Namespace, app |-> "noobaa", node |-> "n1"],
       [name |-> "endpoint", namespace |-> Namespace, app |-> "noobaa", node |-> "n2"],
       [name |-> "other",    namespace |-> Namespace, app |-> "web",    node |-> "n1"],
       [name |-> "foreign",  namespace |-> "kube-system", app |-> "noobaa", node |-> "n1"] >>

\* variant: the list call gives no pod
PodMatches_None(pod, node) == FALSE

\* variant: the list call is not limited to the watched namespace
PodMatches_AnyNamespace(pod, node) ==
    /\ pod.app = "noobaa"
    /\ pod.node = node

\* the options of the list call: label app=noobaa, the watched namespace, the node
PodMatches(pod, node) ==
    /\ pod.app = "noobaa"
    /\ pod.namespace = Namespace
    /\ pod.node = node

RECURSIVE ListPods(_, _, _)
\* podList.Items: the pods of `pool` that exist and match, in order
ListPods(pool, pods, node) ==
    IF pool = <<>> THEN <<>>
    ELSE (IF Head(pool) \in pods /\ PodMatches(Head(pool), node)
          THEN <<Head(pool)>> ELSE <<>>) \o ListPods(Tail(pool), pods, node)

\* no node has failed and no HAC is built
IdleHAC == [ready |-> [n \in Nodes |-> TRUE], pods |-> {}, queue |-> {},
            pc |-> "idle", node |-> "", items |-> <<>>, err |-> FALSE,
            answer |-> ""]

\* the answers of the cluster to a list call: success or an error
ListAnswers == {"ok", "NoMatch", "NotFound", "Conflict", "Forbidden", "Timeout"}

\* util.KubeList: true on success, false on a missing kind, a not-found or a
\* conflict answer, and a panic on every other error
KubeList(answer) ==
    IF answer = "ok" THEN "true"
    ELSE IF answer \in {"NoMatch", "NotFound", "Conflict"} THEN "false"
    ELSE "panic"

\* a node becomes NotReady: the host queues a Reconcile call for it
NodeNotReady(n) ==
    /\ hac.ready[n]
    /\ hac' = [hac EXCEPT !.ready[n] = FALSE, !.queue = @ \cup {n}]
    /\ UNCHANGED <<nsvars, comb, kms>>

\* NewHAC for a queued node, and Reconcile up to the list call
NewHAC(n) ==
    /\ hac.pc = "idle"
    /\ n \in hac.queue
    /\ hac' = [hac EXCEPT !.queue = @ \ {n}, !.pc = "list", !.node = n,
                          !.items = <<>>, !.err = FALSE, !.answer = ""]
    /\ UNCHANGED <<nsvars, comb, kms>>

\* util.KubeList of the pods, answered with o
HACList(o) ==
    /\ hac.pc = "list"
    /\ hac' = IF KubeList(o) = "true"
              THEN LET items == ListPods(PodPool, hac.pods, hac.node)
                   IN  [hac EXCEPT !.items = items, !.answer = o,
                                   !.pc = IF items = <<>> THEN "done" ELSE "delete"]
              ELSE IF KubeList(o) = "false"
              THEN [hac EXCEPT !.pc = "done", !.err = TRUE, !.answer = o]
              ELSE [hac EXCEPT !.pc = "panicked", !.answer = o]
    /\ UNCHANGED <<nsvars, comb, kms>>

\* hac.Client.Delete of the next pod found
HACDelete(o) ==
    /\ hac.pc = "delete"
    /\ LET pod == Head(hac.items)
           ok == o = "ok" /\ pod \in hac.pods
       IN  hac' = IF ok
                  THEN [hac EXCEPT !.pods = @ \ {pod}, !.items = Tail(@),
                                   !.pc = IF Tail(hac.items) = <<>> THEN "done" ELSE "delete"]
                  ELSE [hac EXCEPT !.pc = "done", !.err = TRUE]
    /\ UNCHANGED <<nsvars, comb, kms>>

\* Reconcile returns; the host calls again for the node when an error is returned
HACReturn ==
    /\ hac.pc = "done"
    /\ hac' = [hac EXCEPT !.pc = "idle", !.node = "", !.items = <<>>, !.err = FALSE,
                          !.answer = "",
                          !.queue = IF hac.err THEN @ \cup {hac.node} ELSE @]
    /\ UNCHANGED <<nsvars, comb, kms>>

\* the call panicked: nothing is returned, and the host either calls again for
\* the node or has lost the call
HACPanicked(again) ==
    /\ hac.pc = "panicked"
    /\ hac' = [hac EXCEPT !.pc = "idle", !.node = "", !.items = <<>>, !.err = FALSE,
                          !.answer = "",
                          !.queue = IF again THEN @ \cup {hac.node} ELSE @]
    /\ UNCHANGED <<nsvars, comb, kms>>

-----------------------------------------------------------------------------
(* Validation of the KMS connection details (pkg/util/kms.go).             *)

VaultAuthMethodK8S == "kubernetes"
KmsProviderVault == "vault"
\* a key a Go map does not hold, a field a secret does not hold
Absent == "<absent>"

\* the keys of the connection details the validation reads
KmsKeys == {"VAULT_AUTH_METHOD", "KMS_PROVIDER", "VAULT_ADDR", "VAULT_CAPATH",
            "VAULT_CACERT", "VAULT_CLIENT_CERT", "VAULT_CLIENT_KEY"}

\* config[key]: the zero value when the key is not in the map
MapGet(config, key) == IF config[key] = Absent THEN "" ELSE config[key]

\* the fields of a secret the validation reads
SecretFields == {"token", "cert", "key"}
NoFields == [f \in SecretFields |-> Absent]

\* a secret the namespace does not hold
NoSecret == [exists |-> FALSE, data |-> NoFields]

\* KubeCheck: the secret as fetched, its data moved into string data
KubeCheck(found) == [data |-> NoFields, stringData |-> found.data]
\* KubeCheckOptional: the secret as fetched
KubeCheckOptional(found) == [data |-> found.data, stringData |-> NoFields]

\* the error validateAuthToken returns, "" for nil
validateAuthToken(tokenSecretName, cluster) ==
    IF tokenSecretName = "" THEN "kms token is missing"
    ELSE IF ~cluster[tokenSecretName].exists THEN "Could not find secret"
    ELSE LET secret == KubeCheck(cluster[tokenSecretName])
             token == secret.stringData["token"]
         IN  IF token = Absent \/ token = ""
             THEN "kms token in token secret is missing"
             ELSE ""

\* variant: every provider passes for vault
isVaultKMS_Any(provider) == TRUE

isVaultKMS(provider) == provider = KmsProviderVault

\* the field each TLS option is read from
vaultTLSConnectionDetailsMap ==
    [VAULT_CACERT |-> "cert", VAULT_CLIENT_CERT |-> "cert", VAULT_CLIENT_KEY |-> "key"]

\* the error one TLS option gives, "" for none
TLSOptionError(config, cluster, tlsOption) ==
    LET tlsOptionSecretName == config[tlsOption]
    IN  IF tlsOptionSecretName = Absent \/ tlsOptionSecretName = "" THEN ""
        ELSE IF ~cluster[tlsOptionSecretName].exists THEN "Could not find secret"
        ELSE LET secret == KubeCheckOptional(cluster[tlsOptionSecretName])
                 v == secret.data[vaultTLSConnectionDetailsMap[tlsOption]]
             IN  IF v = Absent \/ v = "" THEN "tls field is missing in secret"
                 ELSE ""

\* the errors validateVaultConnectionDetails can return, "" for nil: the TLS
\* options are visited in the order of a Go map range, which is not fixed
validateVaultConnectionDetails(config, cluster) ==
    IF config["VAULT_ADDR"] = Absent \/ config["VAULT_ADDR"] = ""
    THEN {"vault address is missing"}
    ELSE IF config["VAULT_CAPATH"] # Absent /\ config["VAULT_CAPATH"] # ""
    THEN {"multiple CA is unsupported"}
    ELSE LET errs == {TLSOptionError(config, cluster, o) :
                        o \in DOMAIN vaultTLSConnectionDetailsMap} \ {""}
         IN  IF errs = {} THEN {""} ELSE errs

\* the errors ValidateConnectionDetails can return, "" for nil
ValidateConnectionDetails(config, tokenSecretName, cluster) ==
    LET tokenErr == IF MapGet(config, "VAULT_AUTH_METHOD") # VaultAuthMethodK8S
                    THEN validateAuthToken(tokenSecretName, cluster)
                    ELSE ""
    IN  IF tokenErr # "" THEN {tokenErr}
        ELSE IF ~isVaultKMS(MapGet(config, "KMS_PROVIDER"))
        THEN {"Unsupported kms type"}
        ELSE validateVaultConnectionDetails(config, cluster)

\* the secrets a configuration can name; only the first can be in the cluster
KmsSecretNames == {"s1", "s2"}

IdleKMS == [pc |-> "idle", config |-> [k \in KmsKeys |-> Absent],
            tokenSecretName |-> "", cluster |-> [n \in KmsSecretNames |-> NoSecret],
            err |-> ""]

\* the other components are not in use
OthersIdle == comb = IdleComb /\ hac = IdleHAC /\ kms = IdleKMS

-----------------------------------------------------------------------------
(* Status conditions and SetPhase.                                         *)

NoConditions == [available |-> "", progressing |-> "", degraded |-> "",
                 upgradeable |-> "", reason |-> "", message |-> ""]

SetAvailableCondition(reason, message) ==
    [available |-> "True", progressing |-> "False", degraded |-> "False",
     upgradeable |-> "True", reason |-> reason, message |-> message]

SetProgressingCondition(reason, message) ==
    [available |-> "False", progressing |-> "True", degraded |-> "False",
     upgradeable |-> "False", reason |-> reason, message |-> message]

SetErrorCondition(reason, message) ==
    [available |-> "Unknown", progressing |-> "False", degraded |-> "True",
     upgradeable |-> "Unknown", reason |-> reason, message |-> message]

\* variant: SetPhase sets the condition and leaves the phase
SetPhase_ConditionOnly(ns, phase, reason, message) ==
    [ns EXCEPT !.cond = SetProgressingCondition(reason, message)]

\* SetPhase on the in-memory record ns; phase "" keeps the phase.  ns.trace is the
\* log of the phases set ("SetPhase: %s"), kept to tell their order
SetPhase(ns, phase, reason, message) ==
    IF phase = ""
    THEN [ns EXCEPT !.cond = SetProgressingCondition(reason, message)]
    ELSE [ns EXCEPT !.phase = phase,
                    !.trace = Append(@, phase),
                    !.cond = CASE phase = PhaseReady -> SetAvailableCondition(reason, message)
                               [] phase = PhaseRejected -> SetErrorCondition(reason, message)
                               [] OTHER -> SetProgressingCondition(reason, message)]

-----------------------------------------------------------------------------
(* Metadata helpers of package util, on the in-memory record.              *)

AddFinalizer(ns, finalizer) ==
    IF finalizer \notin ns.finalizers
    THEN [updated |-> TRUE, ns |-> [ns EXCEPT !.finalizers = @ \cup {finalizer}]]
    ELSE [updated |-> FALSE, ns |-> ns]

RemoveFinalizer(ns, finalizer) == [ns EXCEPT !.finalizers = @ \ {finalizer}]

\* [updated, ns]: the app label set to "noobaa" and the finalizer added
EnsureCommonMetaFields(ns, finalizer) ==
    LET labelled == [ns EXCEPT !.app = "noobaa"]
        fin == AddFinalizer(labelled, finalizer)
    IN  [updated |-> (ns.app # "noobaa") \/ fin.updated, ns |-> fin.ns]

-----------------------------------------------------------------------------
(* The Reconciler of a record.                                             *)

\* the record as NewReconciler builds it from the bundled template
EmptyNS == [uid |-> FALSE, deleting |-> FALSE, finalizers |-> {}, app |-> "",
            phase |-> PhaseNew, cond |-> NoConditions, mode |-> "",
            spec |-> MkSpec("", "", NoEndpoint, "", "", FALSE), created |-> 0,
            trace |-> <<>>]

EmptySecret == [name |-> "", uid |-> FALSE, data |-> EmptyStringData]

IdleRC == [pc |-> "idle", recorder |-> FALSE, ns |-> EmptyNS, stale |-> FALSE,
           nb |-> FALSE, secret |-> EmptySecret,
           nsr |-> "", eci |-> NilConn, add |-> NilConn, create |-> NilCreate,
           internalPool |-> "", detach |-> <<>>, pending |-> <<>>,
           err |-> NoError, requeue |-> 0, events |-> <<>>, calls |-> <<>>,
           finRemoved |-> FALSE, published |-> FALSE,
           startPhase |-> PhaseNew, quiet |-> TRUE, prevOk |-> FALSE,
           result |-> "none", reterr |-> NoError, statusUpdates |-> 0]

Running(c) == c.pc \notin {"idle", "done"}

\* the outcomes of util.KubeUpdate: "fail" is a conflict or not-found, and Panic(err)
\* is called on any other error
KubeOutcomes == {"ok", "fail", "panic"}
\* the outcomes of util.KubeCheck: "ok" is the answer of the store, found or not
ReadOutcomes == {"ok", "panic"}
\* the outcomes of a status update and of a call to the remote API
CallOutcomes == {"ok", "fail"}

\* the call `api` with argument `arg` answered `res`, appended to the calls of c
Called(c, api, arg, res) ==
    [c EXCEPT !.calls = Append(@, [api |-> api, arg |-> arg, res |-> res])]

\* variant: the error of the phases is returned to the host
Return_Err(c) == [c EXCEPT !.pc = "done", !.result = "returned", !.reterr = c.err]

\* the Reconcile call returns res with a nil error
Return(c) == [c EXCEPT !.pc = "done", !.result = "returned", !.reterr = NoError]

\* the goroutine panics: Reconcile returns nothing
Panicked(c) == [c EXCEPT !.pc = "done", !.result = "panicked"]

\* variant: no retry delay is set
RequeueAfterError_None(err) == 0

\* the retry delay after an error that is not persistent
RequeueAfterError(err) == IF IsPersistentError(err) THEN 0 ELSE RequeueSeconds

\* variant: the mode table is not consulted
ModePhase_Ready(ns) == [phase |-> PhaseReady, event |-> FALSE, severity |-> ""]

\* the phase and the event of a call that ends without error, by the mode
ModePhase(ns) ==
    IF ns.mode \in DOMAIN modeInfoMap /\ modeInfoMap[ns.mode].Phase # ns.phase
    THEN [phase |-> modeInfoMap[ns.mode].Phase, event |-> TRUE,
          severity |-> modeInfoMap[ns.mode].Severity]
    ELSE [phase |-> PhaseReady, event |-> FALSE, severity |-> ""]

\* the end of Reconcile after the phases or the deletion returned err:
\* the error is classified, the phase and the conditions set, the event recorded;
\* the status update is the step that follows
Classify(c, err) ==
    LET withErr == [c EXCEPT !.err = err, !.pc = "UpdateStatus"]
    IN  IF err # NoError
        THEN IF IsPersistentError(err)
             THEN [withErr EXCEPT
                     !.ns = SetPhase(c.ns, PhaseRejected, err.reason, err.message),
                     !.events = IF c.recorder
                                THEN Append(@, [type |-> EventTypeWarning,
                                                reason |-> err.reason])
                                ELSE @]
             ELSE [withErr EXCEPT
                     !.requeue = RequeueAfterError(err),
                     !.ns = SetPhase(c.ns, "", "TemporaryError", err.message)]
        ELSE LET mp == ModePhase(c.ns)
             IN  IF mp.event
                 THEN [withErr EXCEPT
                         !.ns = SetPhase(c.ns, mp.phase,
                                         "Namespace store mode: " \o c.ns.mode,
                                         "NamespaceStorePhase" \o mp.phase),
                         !.events = IF c.recorder
                                    THEN Append(@, [type |-> mp.severity,
                                                    reason |-> "NamespaceStorePhase"
                                                               \o mp.phase])
                                    ELSE @]
                 ELSE [withErr EXCEPT
                         !.ns = SetPhase(c.ns, PhaseReady, "NamespaceStorePhaseReady",
                                   "noobaa operator completed reconcile")]

-----------------------------------------------------------------------------
(* The remote system.  Account 1 is the account the operator calls as.     *)

ConnCount(rem) == Len(AllConnections(rem.accounts))

\* the connection as the remote system lists it
Listed(conn) == [set |-> TRUE, name |-> conn.name, endpoint_type |-> conn.endpoint_type,
                 endpoint |-> conn.endpoint, identity |-> conn.identity,
                 secret |-> <<>>, auth_method |-> conn.auth_method]

\* add_external_connection: registered with the calling account
RemoteAddConnection(rem, conn) ==
    [rem EXCEPT !.accounts[1].connections = Append(@, Listed(conn))]

\* the connection called `name` as listed, NilConn when there is none
ConnectionNamed(rem, name) ==
    LET conns == AllConnections(rem.accounts)
    IN  IF \E i \in 1..Len(conns) : conns[i].name = name
        THEN conns[CHOOSE i \in 1..Len(conns) :
                      /\ conns[i].name = name
                      /\ \A j \in 1..(i-1) : conns[j].name # name]
        ELSE NilConn

\* create_namespace_resource: the handle records its connection
RemoteCreateResource(rem, create) ==
    LET c == ConnectionNamed(rem, create.connection)
    IN  [rem EXCEPT !.namespace_resources =
            Append(@, [name |-> create.name, connection |-> create.connection,
                       endpoint_type |-> c.endpoint_type, endpoint |-> c.endpoint,
                       identity |-> c.identity])]

RECURSIVE Without(_, _)
\* the sequence seq without the elements called `name`
Without(seq, name) ==
    IF seq = <<>> THEN <<>>
    ELSE IF Head(seq).name = name THEN Without(Tail(seq), name)
         ELSE <<Head(seq)>> \o Without(Tail(seq), name)

RemoteDeleteResource(rem, name) ==
    [rem EXCEPT !.namespace_resources = Without(@, name)]

RemoteDeleteConnection(rem, name) ==
    [rem EXCEPT !.accounts =
        [i \in 1..Len(@) |-> [@[i] EXCEPT !.connections = Without(@, name)]]]

\* update_account_s3_access: the default resource of the account `email`
RemoteUpdateAccount(rem, email, defaultResource) ==
    [rem EXCEPT !.accounts =
        [i \in 1..Len(@) |-> IF @[i].email = email
                             THEN [@[i] EXCEPT !.default_resource = defaultResource]
                             ELSE @[i]]]

\* the remote system answers IN_USE to delete_namespace_resource
ResourceInUse(rem, name) == name \in rem.attached

\* the remote system answers IN_USE to delete_external_connection
ConnectionInUse(rem, name) ==
    \E i \in 1..Len(rem.namespace_resources) :
        rem.namespace_resources[i].connection = name

-----------------------------------------------------------------------------
(* The flow of Reconcile between two calls.  Each operator takes the       *)
(* Reconciler c and gives the Reconciler at the next call, or at the       *)
(* status update when the flow ends.                                       *)

\* variant: the resource handle is created whether or not one exists
GoCreate_Always(c) ==
    IF c.create.set THEN [c EXCEPT !.pc = "CreateResource"]
    ELSE Classify(c, NoError)

\* ReconcileNamespaceStore
GoCreate(c) ==
    IF c.nsr # "" THEN Classify(c, NoError)
    ELSE IF c.create.set THEN [c EXCEPT !.pc = "CreateResource"]
    ELSE Classify(c, NoError)

\* variant: ReconcilePhaseCreating does not set its phase
GoCreating_NoPhase(c) ==
    IF c.eci.set THEN Classify(c, NoError)
    ELSE IF ~c.add.set
         THEN (IF c.create.set THEN [c EXCEPT !.pc = "CreateResource"]
               ELSE Classify(c, NoError))
         ELSE [c EXCEPT !.pc = "CheckConn"]

\* ReconcilePhaseCreating up to the first call of ReconcileExternalConnection
GoCreating(c) ==
    LET c1 == [c EXCEPT !.ns = SetPhase(c.ns, PhaseCreating, "NamespaceStorePhaseCreating",
                                        "noobaa operator started phase 3/3")]
    IN  IF c1.eci.set THEN GoCreate(c1)
        ELSE IF ~c1.add.set THEN GoCreate(c1)
        ELSE [c1 EXCEPT !.pc = "CheckConn"]

\* variant: the grace window includes its last instant
VerifyingError_Inclusive(c, t) ==
    IF ~c.nb
    THEN NewPersistentError("MissingSystem", "NooBaa system not found or deleted")
    ELSE IF c.secret.name # "" /\ ~c.secret.uid
         THEN IF t - c.ns.created <= GraceMinutes
              THEN PlainError("NamespaceStore Secret not found, but not rejecting the young")
              ELSE NewPersistentError("MissingSecret",
                       "NamespaceStore Secret not found or deleted")
         ELSE NoError

\* variant: the secret is looked at before the parent system
VerifyingError_SecretFirst(c, t) ==
    IF c.secret.name # "" /\ ~c.secret.uid
    THEN IF t - c.ns.created < GraceMinutes
         THEN PlainError("NamespaceStore Secret not found, but not rejecting the young")
         ELSE NewPersistentError("MissingSecret",
                  "NamespaceStore Secret not found or deleted")
    ELSE IF ~c.nb
         THEN NewPersistentError("MissingSystem", "NooBaa system not found or deleted")
         ELSE NoError

\* the error of ReconcilePhaseVerifying
VerifyingError(c, t) ==
    IF ~c.nb
    THEN NewPersistentError("MissingSystem", "NooBaa system not found or deleted")
    ELSE IF c.secret.name # "" /\ ~c.secret.uid
         THEN IF t - c.ns.created < GraceMinutes
              THEN PlainError("NamespaceStore Secret not found, but not rejecting the young")
              ELSE NewPersistentError("MissingSecret",
                       "NamespaceStore Secret not found or deleted")
         ELSE NoError

\* variant: ReconcilePhases starts at ReconcilePhaseConnecting
GoPhases_SkipVerifying(c, t) ==
    [c EXCEPT !.ns = SetPhase(c.ns, PhaseConnecting, "NamespaceStorePhaseConnecting",
                              "noobaa operator started phase 2/3"),
              !.pc = "ReadSystem"]

\* ReconcilePhases up to the read_system call of ReconcilePhaseConnecting
GoPhases(c, t) ==
    LET c1 == [c EXCEPT !.ns = SetPhase(c.ns, PhaseVerifying, "NamespaceStorePhaseVerifying",
                                        "noobaa operator started phase 1/3")]
    IN  IF VerifyingError(c1, t) # NoError
        THEN Classify(c1, VerifyingError(c1, t))
        ELSE [c1 EXCEPT !.ns = SetPhase(c1.ns, PhaseConnecting,
                                        "NamespaceStorePhaseConnecting",
                                        "noobaa operator started phase 2/3"),
                        !.pc = "ReadSystem"]

\* variant: the deletion reads the remote system whether or not the parent exists
GoDeletion_AlwaysRead(c) == [c EXCEPT !.pc = "ReadSystem"]

\* ReconcileDeletion after the Deleting phase is published
GoDeletion(c) ==
    IF ~c.nb THEN [c EXCEPT !.pc = "Finalize"]
    ELSE [c EXCEPT !.pc = "ReadSystem"]

\* ReconcileDeletion up to its first call
BeginDeletion(c) ==
    IF c.ns.phase # PhaseDeleting
    THEN [c EXCEPT !.ns = SetPhase(c.ns, PhaseDeleting, "NamespaceStorePhaseDeleting",
                                   "noobaa operator started deletion"),
                   !.pc = "DelUpdateStatus"]
    ELSE GoDeletion(c)

\* Reconcile after LoadNamespaceStoreSecret
Dispatch(c, t) == IF c.ns.deleting THEN BeginDeletion(c) ELSE GoPhases(c, t)

\* the name of the first pool of resource type INTERNAL, "" when there is none
InternalPoolName(pools) ==
    IF \E i \in 1..Len(pools) : pools[i].resource_type = "INTERNAL"
    THEN pools[CHOOSE i \in 1..Len(pools) :
                  /\ pools[i].resource_type = "INTERNAL"
                  /\ \A j \in 1..(i-1) : pools[j].resource_type # "INTERNAL"].name
    ELSE ""

RECURSIVE AccountsWithDefault(_, _)
\* the emails of the accounts whose default resource is `name`, in listing order
AccountsWithDefault(accounts, name) ==
    IF accounts = <<>> THEN <<>>
    ELSE (IF Head(accounts).default_resource = name THEN <<Head(accounts).email>> ELSE <<>>)
         \o AccountsWithDefault(Tail(accounts), name)

\* variant: the connection delete is skipped
GoDeleteConnection_Skip(c) == [c EXCEPT !.pc = "Finalize"]

\* ReconcileDeletion after the resource handle is deleted or was absent
GoDeleteConnection(c) ==
    IF c.eci.set THEN [c EXCEPT !.pc = "DeleteConn"] ELSE [c EXCEPT !.pc = "Finalize"]

\* variant: the resource handle is deleted without the accounts being reset
GoCleanup_NoReset(c, sys) ==
    IF c.nsr # ""
    THEN LET pending == AccountsWithDefault(sys.accounts, c.nsr)
         IN  [c EXCEPT !.internalPool = InternalPoolName(sys.pools),
                       !.detach = pending, !.pending = pending,
                       !.pc = "DeleteResource"]
    ELSE GoDeleteConnection(c)

\* ReconcileDeletion after ReadSystemInfo, sys the system info read
GoCleanup(c, sys) ==
    IF c.nsr # ""
    THEN LET pending == AccountsWithDefault(sys.accounts, c.nsr)
         IN  [c EXCEPT !.internalPool = InternalPoolName(sys.pools),
                       !.detach = pending, !.pending = pending,
                       !.pc = IF pending # <<>> THEN "UpdateAccount" ELSE "DeleteResource"]
    ELSE GoDeleteConnection(c)

\* variant: invalid credentials and an invalid endpoint are persistent at every age
CheckStatusError_NoGrace(status, age) ==
    CASE status = "SUCCESS" -> NoError
      [] status \in {"INVALID_CREDENTIALS", "INVALID_ENDPOINT", "TIME_SKEW", "NOT_SUPPORTED"} ->
            NewPersistentError(status, "invalid external connection")
      [] OTHER -> PlainError("CheckExternalConnection Status=" \o status)

\* the error of ReconcileExternalConnection for the answer of check_external_connection,
\* NoError when the connection is to be added; age is the age of the record
CheckStatusError(status, age) ==
    CASE status = "SUCCESS" -> NoError
      [] status = "INVALID_CREDENTIALS" ->
            IF age < GraceMinutes THEN PlainError("Got InvalidCredentials. requeue again")
            ELSE NewPersistentError(status, "invalid external connection")
      [] status = "INVALID_ENDPOINT" ->
            IF age < GraceMinutes THEN PlainError("got invalid endopint. requeue again")
            ELSE NewPersistentError(status, "invalid external connection")
      [] status \in {"TIME_SKEW", "NOT_SUPPORTED"} ->
            NewPersistentError(status, "invalid external connection")
      [] OTHER -> PlainError("CheckExternalConnection Status=" \o status)

\* the answers of check_external_connection: a status, or an RPC error
CheckStatuses == {"SUCCESS", "INVALID_CREDENTIALS", "INVALID_ENDPOINT", "TIME_SKEW",
                  "NOT_SUPPORTED", "TIMEOUT", "UNKNOWN_FAILURE", "OTHER_STATUS"}
CheckOutcomes == CheckStatuses \cup {"INVALID_SCHEMA_PARAMS", "fail"}

\* variant: a check that timed out is taken for a success
CheckOutcomeError_TimeoutOk(o, age) ==
    CASE o = "INVALID_SCHEMA_PARAMS" ->
            NewPersistentError("InvalidConnectionParams", "invalid schema params")
      [] o = "fail" -> PlainError("check_external_connection failed")
      [] o = "TIMEOUT" -> NoError
      [] OTHER -> CheckStatusError(o, age)

\* the error of ReconcileExternalConnection for an outcome of the check call
CheckOutcomeError(o, age) ==
    CASE o = "INVALID_SCHEMA_PARAMS" ->
            NewPersistentError("InvalidConnectionParams", "invalid schema params")
      [] o = "fail" -> PlainError("check_external_connection failed")
      [] OTHER -> CheckStatusError(o, age)

\* variant: the IN_USE answer to delete_namespace_resource is a persistent error
DeleteResourceError_Persistent(o) ==
    CASE o = "ok" -> NoError
      [] o = "IN_USE" -> NewPersistentError("IN_USE", "namespace store has buckets attached")
      [] OTHER -> PlainError("delete_namespace_resource failed")

\* variant: the IN_USE answer to delete_namespace_resource is tolerated
DeleteResourceError_TolerateInUse(o) ==
    CASE o \in {"ok", "IN_USE"} -> NoError
      [] OTHER -> PlainError("delete_namespace_resource failed")

\* the error ReconcileDeletion returns for an outcome of delete_namespace_resource
DeleteResourceError(o) ==
    CASE o = "ok" -> NoError
      [] o = "IN_USE" -> PlainError("DeleteNamespaceResourceAPI cannot complete because namespace store has buckets attached")
      [] OTHER -> PlainError("delete_namespace_resource failed")

\* the outcomes of delete_external_connection: ok, an RPC error with the code
\* IN_USE, an RPC error with another code, an error that is no RPC error
DeleteConnOutcomes == {"ok", "IN_USE", "UNAUTHORIZED", "fail"}

\* variant: an RPC error with code IN_USE is returned like any other error
DeleteConnectionError_InUseFails(o) ==
    CASE o = "ok" -> NoError
      [] OTHER -> PlainError("delete_external_connection failed")

\* the error ReconcileDeletion returns for an outcome of delete_external_connection:
\* an RPC error with code IN_USE is tolerated
DeleteConnectionError(o) ==
    CASE o = "ok" -> NoError
      [] o = "IN_USE" -> NoError
      [] OTHER -> PlainError("delete_external_connection failed")

-----------------------------------------------------------------------------
(* The cluster store.                                                      *)

\* the record r as a read gives it
Loaded(r) ==
    [uid |-> TRUE, deleting |-> store[r].deleting, finalizers |-> store[r].finalizers,
     app |-> store[r].app, phase |-> store[r].phase, cond |-> store[r].cond,
     mode |-> store[r].mode, spec |-> store[r].spec, created |-> store[r].created,
     trace |-> <<>>]

\* variant: an update of a stale copy is accepted
CanWrite_Stale(r) == store[r].uid = "live"

\* client.Update of the in-memory record ns can succeed: the record exists and the
\* copy in memory is the stored version
CanWrite(r) == store[r].uid = "live" /\ ~rc[r].stale

\* the cluster refuses an update that adds a finalizer to a record marked for
\* deletion; the error is neither a conflict nor not-found
Refused(r, ns) == store[r].deleting /\ ~(ns.finalizers \subseteq store[r].finalizers)

\* the outcome of util.KubeUpdate of ns when the cluster API answers o
UpdateOutcome(r, ns, o) ==
    IF o = "panic" THEN "panic"
    ELSE IF o = "fail" \/ ~CanWrite(r) THEN "fail"
    ELSE IF Refused(r, ns) THEN "panic"
    ELSE "ok"

\* client.Update: the metadata and the spec are written, the status is not; a record
\* marked for deletion is removed with its last finalizer
AfterUpdate(r, ns) ==
    [store EXCEPT ![r].finalizers = ns.finalizers, ![r].app = ns.app, ![r].spec = ns.spec,
                  ![r].uid = IF store[r].deleting /\ ns.finalizers = {} THEN "gone" ELSE @]

\* variant: a stored phase Rejected is not overwritten
AfterStatusUpdate_KeepRejected(r, ns) ==
    [store EXCEPT ![r].phase = IF @ = PhaseRejected THEN @ ELSE ns.phase,
                  ![r].cond = ns.cond, ![r].mode = ns.mode]

\* client.Status().Update: the status alone is written
AfterStatusUpdate(r, ns) ==
    [store EXCEPT ![r].phase = ns.phase, ![r].cond = ns.cond, ![r].mode = ns.mode]

\* a step of another actor that changes what the Reconciler of a record other than
\* `actor` reads: that record's current call, and its last one, are no longer quiet
Disturb(f, actor) ==
    [q \in Records |-> IF q = actor THEN f[q] ELSE [f[q] EXCEPT !.quiet = FALSE]]
DisturbHist(actor) ==
    [q \in Records |-> IF q = actor THEN hist[q] ELSE [hist[q] EXCEPT !.okQuiet = FALSE]]

\* a change of the stored record r by another client makes the copy in memory stale
Stale(f, r) == [f EXCEPT ![r].stale = Running(f[r]), ![r].quiet = FALSE]

-----------------------------------------------------------------------------
(* The steps of Reconcile on the record r.  o is the outcome of the call   *)
(* the step makes.                                                         *)

\* Reconcile, to the update of the mandatory meta fields: the host built the
\* Reconciler with or without an event recorder
Start(r, recorder, o) ==
    /\ rc[r].pc = "idle"
    /\ store[r].uid # "none"
    /\ LET c0 == [IdleRC EXCEPT !.recorder = recorder, !.prevOk = hist[r].okQuiet,
                                 !.startPhase = store[r].phase]
           found == store[r].uid = "live"
           meta == EnsureCommonMetaFields(Loaded(r), Finalizer)
       IN  rc' = [rc EXCEPT ![r] =
                   IF o = "panic" THEN Panicked(c0)
                   ELSE IF ~found THEN Return(c0)
                   ELSE [c0 EXCEPT !.ns = meta.ns,
                                   !.pc = IF meta.updated THEN "KubeUpdateMeta"
                                          ELSE "CheckSystem"]]
    /\ hist' = [hist EXCEPT ![r].okQuiet = FALSE, ![r].wanted = FALSE]
    /\ UNCHANGED <<others, store, nooBaa, secrets, now, remote>>

\* util.KubeUpdate of the mandatory meta fields
KubeUpdateMeta(r, o) ==
    /\ rc[r].pc = "KubeUpdateMeta"
    /\ LET c == rc[r]
           res == UpdateOutcome(r, c.ns, o)
       IN  /\ store' = IF res = "ok" THEN AfterUpdate(r, c.ns) ELSE store
           /\ rc' = [rc EXCEPT ![r] =
                       IF res = "panic" THEN Panicked(c)
                       ELSE IF res = "fail" THEN Return([c EXCEPT !.requeue = RequeueSeconds])
                       ELSE [c EXCEPT !.ns.deleting = store[r].deleting,
                                      !.pc = "CheckSystem"]]
    /\ UNCHANGED <<others, nooBaa, secrets, now, remote, hist>>

\* system.CheckSystem(r.NooBaa)
CheckSystem(r, o) ==
    /\ rc[r].pc = "CheckSystem"
    /\ rc' = [rc EXCEPT ![r] =
                IF o = "panic" THEN Panicked(@)
                ELSE [@ EXCEPT !.nb = nooBaa, !.pc = "LoadSecret"]]
    /\ UNCHANGED <<others, store, nooBaa, secrets, now, remote, hist>>

\* LoadNamespaceStoreSecret, then the phases or the deletion up to their first call
LoadSecret(r, o) ==
    /\ rc[r].pc = "LoadSecret"
    /\ LET c == rc[r]
           ref == GetNamespaceStoreSecret(c.ns.spec)
           found == secrets[ref].uid
           sec == IF ref = "" THEN EmptySecret
                  ELSE [name |-> ref, uid |-> found,
                        data |-> IF found THEN secrets[ref].data ELSE EmptyStringData]
       IN  /\ ref = "" => o = "ok"
           /\ rc' = [rc EXCEPT ![r] =
                       IF o = "panic" THEN Panicked(c)
                       ELSE Dispatch([c EXCEPT !.secret = sec], now)]
    /\ UNCHANGED <<others, store, nooBaa, secrets, now, remote, hist>>

\* ReconcileDeletion: UpdateStatus of the Deleting phase
DelUpdateStatus(r, o) ==
    /\ rc[r].pc = "DelUpdateStatus"
    /\ LET c == [rc[r] EXCEPT !.statusUpdates = @ + 1]
           ok == o = "ok" /\ CanWrite(r)
       IN  /\ store' = IF ok THEN AfterStatusUpdate(r, c.ns) ELSE store
           /\ rc' = [rc EXCEPT ![r] =
                       IF ok THEN GoDeletion(c)
                       ELSE Classify(c, PlainError("UpdateStatus failed"))]
           /\ hist' = [hist EXCEPT ![r].sawDeleting = @ \/ (ok /\ c.ns.phase = PhaseDeleting)]
    /\ UNCHANGED <<others, nooBaa, secrets, now, remote>>

\* ReadSystemInfo: system.Connect and read_system, then the flow to the next call
ReadSystem(r, o) ==
    /\ rc[r].pc = "ReadSystem"
    /\ LET c == Called(rc[r], "read_system", "", o)
           info == ReadSystemInfoResult(remote, r, c.ns.spec, c.secret.data)
           c1 == [c EXCEPT !.nsr = info.nsr, !.eci = info.eci, !.add = info.add,
                           !.create = info.create, !.ns.spec = info.spec]
       IN  rc' = [rc EXCEPT ![r] =
                   IF o # "ok" THEN Classify(c, PlainError("read_system failed"))
                   ELSE IF info.err # NoError THEN Classify(c1, info.err)
                   ELSE IF c.ns.deleting THEN GoCleanup(c1, remote)
                   ELSE GoCreating(c1)]
    /\ UNCHANGED <<others, store, nooBaa, secrets, now, remote, hist>>

\* ReconcileExternalConnection: check_external_connection
CheckConn(r, o) ==
    /\ rc[r].pc = "CheckConn"
    /\ LET c == Called(rc[r], "check_external_connection", rc[r].add.name, o)
           err == CheckOutcomeError(o, now - c.ns.created)
       IN  rc' = [rc EXCEPT ![r] =
                   IF err # NoError THEN Classify(c, err)
                   ELSE [c EXCEPT !.pc = "AddConn"]]
    /\ UNCHANGED <<others, store, nooBaa, secrets, now, remote, hist>>

\* ReconcileExternalConnection: add_external_connection
AddConn(r, o) ==
    /\ rc[r].pc = "AddConn"
    /\ o = "ok" => ConnCount(remote) < MaxConns
    /\ LET c == Called(rc[r], "add_external_connection", rc[r].add.name, o)
       IN  /\ remote' = IF o = "ok" THEN RemoteAddConnection(remote, c.add) ELSE remote
           /\ rc' = Disturb([rc EXCEPT ![r] =
                       IF o = "ok" THEN GoCreate(c)
                       ELSE Classify(c, PlainError("add_external_connection failed"))], r)
           /\ hist' = IF o = "ok" THEN DisturbHist(r) ELSE hist
    /\ UNCHANGED <<others, store, nooBaa, secrets, now>>

\* ReconcileNamespaceStore: create_namespace_resource
CreateResource(r, o) ==
    /\ rc[r].pc = "CreateResource"
    /\ LET c == Called(rc[r], "create_namespace_resource", rc[r].create.connection, o)
       IN  /\ remote' = IF o = "ok" THEN RemoteCreateResource(remote, c.create) ELSE remote
           /\ rc' = Disturb([rc EXCEPT ![r] =
                       IF o = "ok" THEN Classify(c, NoError)
                       ELSE Classify(c, PlainError("create_namespace_resource failed"))], r)
           /\ hist' = IF o = "ok" THEN DisturbHist(r) ELSE hist
    /\ UNCHANGED <<others, store, nooBaa, secrets, now>>

\* ReconcileDeletion: update_account_s3_access of the next account to detach
UpdateAccount(r, o) ==
    /\ rc[r].pc = "UpdateAccount"
    /\ LET email == Head(rc[r].pending)
           c == Called(rc[r], "update_account_s3_access", email, o)
           rest == Tail(c.pending)
       IN  /\ remote' = IF o = "ok"
                        THEN RemoteUpdateAccount(remote, email, c.internalPool)
                        ELSE remote
           /\ rc' = Disturb([rc EXCEPT ![r] =
                       IF o = "ok"
                       THEN [c EXCEPT !.pending = rest,
                                      !.pc = IF rest = <<>> THEN "DeleteResource"
                                             ELSE "UpdateAccount"]
                       ELSE Classify(c, PlainError("update_account_s3_access failed"))], r)
           /\ hist' = IF o = "ok" THEN DisturbHist(r) ELSE hist
    /\ UNCHANGED <<others, store, nooBaa, secrets, now>>

\* ReconcileDeletion: delete_namespace_resource
DeleteResource(r, o) ==
    /\ rc[r].pc = "DeleteResource"
    /\ o = "IN_USE" => ResourceInUse(remote, rc[r].nsr)
    /\ o = "ok" => ~ResourceInUse(remote, rc[r].nsr)
    /\ LET c == Called(rc[r], "delete_namespace_resource", rc[r].nsr, o)
       IN  /\ remote' = IF o = "ok" THEN RemoteDeleteResource(remote, c.nsr) ELSE remote
           /\ rc' = Disturb([rc EXCEPT ![r] =
                       IF DeleteResourceError(o) # NoError
                       THEN Classify(c, DeleteResourceError(o))
                       ELSE GoDeleteConnection(c)], r)
           /\ hist' = IF o = "ok" THEN DisturbHist(r)
                      ELSE [hist EXCEPT ![r].sawInUse = @ \/ o = "IN_USE"]
    /\ UNCHANGED <<others, store, nooBaa, secrets, now>>

\* ReconcileDeletion: delete_external_connection
DeleteConn(r, o) ==
    /\ rc[r].pc = "DeleteConn"
    /\ o = "IN_USE" => ConnectionInUse(remote, rc[r].eci.name)
    /\ o = "ok" => ~ConnectionInUse(remote, rc[r].eci.name)
    /\ LET c == Called(rc[r], "delete_external_connection", rc[r].eci.name, o)
       IN  /\ remote' = IF o = "ok" THEN RemoteDeleteConnection(remote, c.eci.name)
                        ELSE remote
           /\ rc' = Disturb([rc EXCEPT ![r] =
                       IF DeleteConnectionError(o) # NoError
                       THEN Classify(c, DeleteConnectionError(o))
                       ELSE [c EXCEPT !.pc = "Finalize"]], r)
           /\ hist' = IF o = "ok" THEN DisturbHist(r) ELSE hist
    /\ UNCHANGED <<others, store, nooBaa, secrets, now>>

\* FinalizeDeletion: RemoveFinalizer and util.KubeUpdate
Finalize(r, o) ==
    /\ rc[r].pc = "Finalize"
    /\ LET c == [rc[r] EXCEPT !.ns = RemoveFinalizer(@, Finalizer)]
           res == UpdateOutcome(r, c.ns, o)
       IN  /\ store' = IF res = "ok" THEN AfterUpdate(r, c.ns) ELSE store
           /\ rc' = [rc EXCEPT ![r] =
                       IF res = "panic" THEN Panicked(c)
                       ELSE IF res = "ok"
                       THEN Classify([c EXCEPT !.finRemoved =
                                         Finalizer \in store[r].finalizers], NoError)
                       ELSE Classify(c, PlainError("failed to remove finalizer"))]
    /\ UNCHANGED <<others, nooBaa, secrets, now, remote, hist>>

\* variant: a failed status update asks for no retry
UpdateStatus_NoRequeue(r, o) ==
    /\ rc[r].pc = "UpdateStatus"
    /\ LET c == [rc[r] EXCEPT !.statusUpdates = @ + 1]
           ok == o = "ok" /\ CanWrite(r)
       IN  /\ store' = IF ok THEN AfterStatusUpdate(r, c.ns) ELSE store
           /\ rc' = [rc EXCEPT ![r] = Return([c EXCEPT !.published = ok])]
           /\ hist' = [hist EXCEPT ![r].okQuiet =
                          c.quiet /\ ~c.ns.deleting /\ c.err = NoError,
                                    ![r].sawDeleting =
                          @ \/ (ok /\ c.ns.phase = PhaseDeleting)]
    /\ UNCHANGED <<others, nooBaa, secrets, now, remote>>

\* Reconcile: the final UpdateStatus, and the return
UpdateStatus(r, o) ==
    /\ rc[r].pc = "UpdateStatus"
    /\ LET c == [rc[r] EXCEPT !.statusUpdates = @ + 1]
           ok == o = "ok" /\ CanWrite(r)
       IN  /\ store' = IF ok THEN AfterStatusUpdate(r, c.ns) ELSE store
           /\ rc' = [rc EXCEPT ![r] =
                       Return([c EXCEPT !.requeue = IF ok THEN @ ELSE RequeueSeconds,
                                        !.published = ok])]
           /\ hist' = [hist EXCEPT ![r].okQuiet =
                          c.quiet /\ ~c.ns.deleting /\ c.err = NoError,
                                    ![r].sawDeleting =
                          @ \/ (ok /\ c.ns.phase = PhaseDeleting)]
    /\ UNCHANGED <<others, nooBaa, secrets, now, remote>>

\* the host is done with the call: the Reconciler is dropped
Drop(r) ==
    /\ rc[r].pc = "done"
    /\ rc' = [rc EXCEPT ![r] = IdleRC]
    /\ hist' = [hist EXCEPT ![r].wanted =
                   @ \/ rc[r].requeue # 0 \/ rc[r].result = "panicked"]
    /\ UNCHANGED <<others, store, nooBaa, secrets, now, remote>>

\* the host cancels the call, or the operator stops, between two steps: the
\* Reconciler is lost with all it holds and the host calls Reconcile again later
Interrupt(r) ==
    /\ Running(rc[r])
    /\ rc' = [rc EXCEPT ![r] = IdleRC]
    /\ hist' = [hist EXCEPT ![r].wanted = TRUE]
    /\ UNCHANGED <<others, store, nooBaa, secrets, now, remote>>

-----------------------------------------------------------------------------
(* The environment.                                                        *)

\* the return of a call takes no time: the environment moves before or after it
Returning == \E r \in Records : rc[r].pc = "done"

\* the owner of the record asks for its deletion
EnvMarkDeleted(r) ==
    /\ ~Returning
    /\ store[r].uid = "live"
    /\ ~store[r].deleting
    /\ store' = IF store[r].finalizers = {} THEN [store EXCEPT ![r].uid = "gone"]
                ELSE [store EXCEPT ![r].deleting = TRUE]
    /\ rc' = Stale(rc, r)
    /\ hist' = [hist EXCEPT ![r].okQuiet = FALSE, ![r].wanted = TRUE]
    /\ UNCHANGED <<others, nooBaa, secrets, now, remote>>

\* the parent system is deleted
EnvSystemGone ==
    /\ ~Returning
    /\ nooBaa
    /\ nooBaa' = FALSE
    /\ rc' = Disturb(rc, "")
    /\ hist' = DisturbHist("")
    /\ UNCHANGED <<others, store, secrets, now, remote>>

\* the secret sn appears
EnvSecretCreated(sn) ==
    /\ ~Returning
    /\ ~secrets[sn].uid
    /\ secrets' = [secrets EXCEPT ![sn].uid = TRUE]
    /\ rc' = Disturb(rc, "")
    /\ hist' = DisturbHist("")
    /\ UNCHANGED <<others, store, nooBaa, now, remote>>

\* d minutes pass
Tick(d) ==
    /\ ~Returning
    /\ now + d <= MaxNow
    /\ now' = now + d
    /\ UNCHANGED <<others, store, nooBaa, secrets, remote, rc, hist>>

\* a bucket is attached to the resource handle `name`
EnvAttach(name) ==
    /\ ~Returning
    /\ FindResource(remote.namespace_resources, name) # ""
    /\ name \notin remote.attached
    /\ remote' = [remote EXCEPT !.attached = @ \cup {name}]
    /\ rc' = Disturb(rc, "")
    /\ hist' = DisturbHist("")
    /\ UNCHANGED <<others, store, nooBaa, secrets, now>>

\* the last bucket of the resource handle `name` is detached
EnvDetach(name) ==
    /\ ~Returning
    /\ name \in remote.attached
    /\ remote' = [remote EXCEPT !.attached = @ \ {name}]
    /\ rc' = Disturb(rc, "")
    /\ hist' = DisturbHist("")
    /\ UNCHANGED <<others, store, nooBaa, secrets, now>>

\* the account `email` takes the resource handle `name` as its default resource
EnvAccountDefault(email, name) ==
    /\ ~Returning
    /\ FindResource(remote.namespace_resources, name) # ""
    /\ \E i \in 1..Len(remote.accounts) :
          remote.accounts[i].email = email /\ remote.accounts[i].default_resource # name
    /\ remote' = RemoteUpdateAccount(remote, email, name)
    /\ rc' = Disturb(rc, "")
    /\ hist' = DisturbHist("")
    /\ UNCHANGED <<others, store, nooBaa, secrets, now>>

\* the remote side reports the mode m, which its owner writes to the status of r
EnvMode(r, m) ==
    /\ ~Returning
    /\ store[r].uid = "live"
    /\ store[r].mode # m
    /\ store' = [store EXCEPT ![r].mode = m]
    /\ rc' = Stale(rc, r)
    /\ hist' = [hist EXCEPT ![r].okQuiet = FALSE, ![r].wanted = TRUE]
    /\ UNCHANGED <<others, nooBaa, secrets, now, remote>>

-----------------------------------------------------------------------------
(* Initial states.                                                         *)

\* a secret with an access key and a secret key
KeyData == [EmptyStringData EXCEPT !["AWS_ACCESS_KEY_ID"] = <<"A">>,
                                   !["AWS_SECRET_ACCESS_KEY"] = <<"B">>]

\* an s3-compatible spec: secret s1, endpoint "h1" without a scheme, signature v4
SpecS3 == MkSpec(NSStoreTypeS3Compatible, "s1",
                 [scheme |-> "", rest |-> "h1", parses |-> TRUE],
                 S3SignatureVersionV4, "", FALSE)

\* the same with an endpoint that url.Parse rejects
SpecBadEndpoint == [SpecS3 EXCEPT !.endpoint = [scheme |-> "", rest |-> "%zz", parses |-> FALSE]]

\* a record just created by its owner
NewRecord(spec) ==
    [uid |-> "live", deleting |-> FALSE, finalizers |-> {}, app |-> "",
     phase |-> PhaseNew, cond |-> NoConditions, mode |-> "", spec |-> spec,
     created |-> 0]

\* a record name the owner never created
NoRecord == [NewRecord(SpecS3) EXCEPT !.uid = "none"]

\* the remote system before any reconciliation
FreshRemote ==
    [accounts |-> << [email |-> "operator", default_resource |-> "internal-pool",
                      connections |-> <<>>],
                     [email |-> "user", default_resource |-> "internal-pool",
                      connections |-> <<>>] >>,
     namespace_resources |-> <<>>,
     pools |-> << [name |-> "internal-pool", resource_type |-> "INTERNAL"] >>,
     attached |-> {}]

\* no call yet; the host has seen the creation of the record, if it exists
NoHistory(exists) == [okQuiet |-> FALSE, wanted |-> exists, sawInUse |-> FALSE,
                      sawDeleting |-> FALSE]

Init ==
    /\ store \in {[r \in Records |-> IF r = "ns1" THEN NewRecord(sp) ELSE NoRecord] :
                      sp \in {SpecS3, SpecBadEndpoint}}
    /\ nooBaa = TRUE
    /\ secrets \in {[sn \in SecretNames |-> [uid |-> (u \/ sn # "s1"), data |-> KeyData]] :
                        u \in BOOLEAN}
    /\ now = 0
    /\ remote = FreshRemote
    /\ rc = [r \in Records |-> IdleRC]
    /\ hist = [r \in Records |-> NoHistory(store[r].uid = "live")]
    /\ OthersIdle

-----------------------------------------------------------------------------
(* The next-state relation.                                                *)

Steps(r) ==
    \/ \E rec \in BOOLEAN, o \in ReadOutcomes : Start(r, rec, o)
    \/ \E o \in KubeOutcomes : KubeUpdateMeta(r, o)
    \/ \E o \in ReadOutcomes : CheckSystem(r, o)
    \/ \E o \in ReadOutcomes : LoadSecret(r, o)
    \/ \E o \in CallOutcomes : DelUpdateStatus(r, o)
    \/ \E o \in CallOutcomes : ReadSystem(r, o)
    \/ \E o \in CheckOutcomes : CheckConn(r, o)
    \/ \E o \in CallOutcomes : AddConn(r, o)
    \/ \E o \in CallOutcomes : CreateResource(r, o)
    \/ \E o \in CallOutcomes : UpdateAccount(r, o)
    \/ \E o \in {"ok", "IN_USE", "fail"} : DeleteResource(r, o)
    \/ \E o \in DeleteConnOutcomes : DeleteConn(r, o)
    \/ \E o \in KubeOutcomes : Finalize(r, o)
    \/ \E o \in CallOutcomes : UpdateStatus(r, o)
    \/ Drop(r)

Env ==
    \/ \E r \in Records : EnvMarkDeleted(r)
    \/ EnvSystemGone
    \/ \E sn \in SecretNames : EnvSecretCreated(sn)
    \/ Tick(GraceMinutes)
    \/ \E r \in Records : EnvAttach(r)
    \/ \E r \in Records : EnvDetach(r)
    \/ \E r \in Records : EnvAccountDefault("user", r)

Next == (\E r \in Records : Steps(r)) \/ Env

Spec == Init /\ [][Next]_vars

-----------------------------------------------------------------------------
(* The same, on a remote system that lists a pool of hosts, with or        *)
(* without a pool of resource type INTERNAL.                               *)

PoolLists ==
    { << [name |-> "pool1", resource_type |-> "HOSTS"] >>,
      << [name |-> "pool1", resource_type |-> "HOSTS"],
         [name |-> "internal-pool", resource_type |-> "INTERNAL"] >> }

InitPools ==
    /\ store \in {[r \in Records |-> IF r = "ns1" THEN NewRecord(sp) ELSE NoRecord] :
                      sp \in {SpecS3, SpecBadEndpoint}}
    /\ nooBaa = TRUE
    /\ secrets \in {[sn \in SecretNames |-> [uid |-> (u \/ sn # "s1"), data |-> KeyData]] :
                        u \in BOOLEAN}
    /\ now = 0
    /\ remote \in {[FreshRemote EXCEPT !.pools = p] : p \in PoolLists}
    /\ rc = [r \in Records |-> IdleRC]
    /\ hist = [r \in Records |-> NoHistory(store[r].uid = "live")]
    /\ OthersIdle

SpecPools == InitPools /\ [][Next]_vars

-----------------------------------------------------------------------------
(* Two records whose specs resolve to the same connection, or to two       *)
(* connections, reconciled side by side; every call is answered.           *)

\* the spec of SpecS3 with another endpoint
SpecOther == [SpecS3 EXCEPT !.endpoint = [scheme |-> "", rest |-> "h2", parses |-> TRUE]]

InitTwo ==
    /\ store \in {[r \in Records |-> IF r = "ns1" THEN NewRecord(SpecS3) ELSE NewRecord(sp)] :
                      sp \in {SpecS3, SpecOther}}
    /\ nooBaa = TRUE
    /\ secrets = [sn \in SecretNames |-> [uid |-> TRUE, data |-> KeyData]]
    /\ now = 0
    /\ remote = FreshRemote
    /\ rc = [r \in Records |-> IdleRC]
    /\ hist = [r \in Records |-> NoHistory(TRUE)]
    /\ OthersIdle

StepsTwo(r) ==
    \/ Start(r, TRUE, "ok")
    \/ KubeUpdateMeta(r, "ok")
    \/ CheckSystem(r, "ok")
    \/ LoadSecret(r, "ok")
    \/ ReadSystem(r, "ok")
    \/ \E o \in {"SUCCESS", "TIMEOUT"} : CheckConn(r, o)
    \/ AddConn(r, "ok")
    \/ CreateResource(r, "ok")
    \/ UpdateStatus(r, "ok")
    \/ Drop(r)

NextTwo == \E r \in Records : StepsTwo(r)

SpecTwo == InitTwo /\ [][NextTwo]_vars

-----------------------------------------------------------------------------
(* One record, created then deleted by its owner while buckets come and go *)
(* on its resource handle.  Every call is answered; the host calls         *)
(* Reconcile when the record changed or a retry was asked for, and a call  *)
(* in progress goes on.                                                    *)

InitRetry ==
    /\ store = [r \in Records |-> IF r = "ns1" THEN NewRecord(SpecS3) ELSE NoRecord]
    /\ nooBaa = TRUE
    /\ secrets = [sn \in SecretNames |-> [uid |-> TRUE, data |-> KeyData]]
    /\ now = 0
    /\ remote = FreshRemote
    /\ rc = [r \in Records |-> IdleRC]
    /\ hist = [r \in Records |-> NoHistory(store[r].uid = "live")]
    /\ OthersIdle

\* the host calls Reconcile for an event of the record or a retry that is due
Retry(r) == hist[r].wanted /\ Start(r, TRUE, "ok")

StepsRetry(r) ==
    \/ Retry(r)
    \/ CheckSystem(r, "ok")
    \/ LoadSecret(r, "ok")
    \/ KubeUpdateMeta(r, "ok")
    \/ DelUpdateStatus(r, "ok")
    \/ ReadSystem(r, "ok")
    \/ CheckConn(r, "SUCCESS")
    \/ AddConn(r, "ok")
    \/ CreateResource(r, "ok")
    \/ UpdateAccount(r, "ok")
    \/ \E o \in {"ok", "IN_USE"} : DeleteResource(r, o)
    \/ DeleteConn(r, "ok")
    \/ Finalize(r, "ok")
    \/ UpdateStatus(r, "ok")
    \/ Drop(r)

EnvRetry ==
    \/ EnvMarkDeleted("ns1")
    \/ EnvAttach("ns1")
    \/ EnvDetach("ns1")
    \/ EnvAccountDefault("user", "ns1")

NextRetry == StepsRetry("ns1") \/ EnvRetry

SpecRetry == InitRetry /\ [][NextRetry]_vars /\ WF_vars(StepsRetry("ns1"))

-----------------------------------------------------------------------------
(* Two new records with valid specs, a live parent system, their secret    *)
(* present and a remote API that answers every call with success.  The     *)
(* host calls Reconcile for the creation of a record and for the retries   *)
(* asked for, and a call in progress goes on.                              *)

StepsConverge(r) ==
    \/ Retry(r)
    \/ KubeUpdateMeta(r, "ok")
    \/ CheckSystem(r, "ok")
    \/ LoadSecret(r, "ok")
    \/ ReadSystem(r, "ok")
    \/ CheckConn(r, "SUCCESS")
    \/ AddConn(r, "ok")
    \/ CreateResource(r, "ok")
    \/ UpdateStatus(r, "ok")
    \/ Drop(r)

NextConverge == \E r \in Records : StepsConverge(r)

SpecConverge ==
    /\ InitTwo
    /\ [][NextConverge]_vars
    /\ \A r \in Records : WF_vars(StepsConverge(r))

-----------------------------------------------------------------------------
(* One record whose secret is missing at first and may appear, reconciled  *)
(* at every age from 0 to MaxNow minutes; the check call gives any answer. *)

InitGrace ==
    /\ store = [r \in Records |-> IF r = "ns1" THEN NewRecord(SpecS3) ELSE NoRecord]
    /\ nooBaa = TRUE
    /\ secrets = [sn \in SecretNames |-> [uid |-> sn # "s1", data |-> KeyData]]
    /\ now = 0
    /\ remote = FreshRemote
    /\ rc = [r \in Records |-> IdleRC]
    /\ hist = [r \in Records |-> NoHistory(store[r].uid = "live")]
    /\ OthersIdle

StepsGrace(r) ==
    \/ \E rec \in BOOLEAN : Start(r, rec, "ok")
    \/ KubeUpdateMeta(r, "ok")
    \/ CheckSystem(r, "ok")
    \/ LoadSecret(r, "ok")
    \/ ReadSystem(r, "ok")
    \/ \E o \in CheckOutcomes : CheckConn(r, o)
    \/ AddConn(r, "ok")
    \/ CreateResource(r, "ok")
    \/ UpdateStatus(r, "ok")
    \/ Drop(r)

EnvGrace == Tick(1) \/ EnvSecretCreated("s1")

NextGrace == StepsGrace("ns1") \/ EnvGrace

SpecGrace == InitGrace /\ [][NextGrace]_vars

-----------------------------------------------------------------------------
(* One record, reconciled again and again while the mode the remote side   *)
(* reports changes; the Reconciler has an event recorder.                  *)

\* the modes of the table, a mode that is not in it, and no mode
Modes == DOMAIN modeInfoMap \cup {"INITIALIZING", ""}

StepsMode(r) ==
    \/ Start(r, TRUE, "ok")
    \/ KubeUpdateMeta(r, "ok")
    \/ CheckSystem(r, "ok")
    \/ LoadSecret(r, "ok")
    \/ \E o \in CallOutcomes : ReadSystem(r, o)
    \/ CheckConn(r, "SUCCESS")
    \/ AddConn(r, "ok")
    \/ CreateResource(r, "ok")
    \/ \E o \in CallOutcomes : UpdateStatus(r, o)
    \/ Drop(r)

EnvModes == \E m \in Modes : EnvMode("ns1", m)

NextMode == StepsMode("ns1") \/ EnvModes

SpecMode == InitRetry /\ [][NextMode]_vars

-----------------------------------------------------------------------------
(* Two records with different endpoints and a remote API that answers      *)
(* every call with success; a call may be interrupted between any two of   *)
(* its steps, and Reconcile is called again.                               *)

InitResume ==
    /\ store = [r \in Records |-> IF r = "ns1" THEN NewRecord(SpecS3) ELSE NewRecord(SpecOther)]
    /\ nooBaa = TRUE
    /\ secrets = [sn \in SecretNames |-> [uid |-> TRUE, data |-> KeyData]]
    /\ now = 0
    /\ remote = FreshRemote
    /\ rc = [r \in Records |-> IdleRC]
    /\ hist = [r \in Records |-> NoHistory(TRUE)]
    /\ OthersIdle

StepsResume(r) ==
    \/ Start(r, TRUE, "ok")
    \/ KubeUpdateMeta(r, "ok")
    \/ CheckSystem(r, "ok")
    \/ LoadSecret(r, "ok")
    \/ ReadSystem(r, "ok")
    \/ CheckConn(r, "SUCCESS")
    \/ AddConn(r, "ok")
    \/ CreateResource(r, "ok")
    \/ UpdateStatus(r, "ok")
    \/ Drop(r)
    \/ Interrupt(r)

NextResume == \E r \in Records : StepsResume(r)

SpecResume == InitResume /\ [][NextResume]_vars

-----------------------------------------------------------------------------
(* Two records with the same spec, which come to share one connection, and *)
(* are deleted by their owner at any time; the calls are answered with     *)
(* success, but for the delete call of the connection and the update that  *)
(* removes the finalizer.                                                  *)

InitShared ==
    /\ store = [r \in Records |-> NewRecord(SpecS3)]
    /\ nooBaa = TRUE
    /\ secrets = [sn \in SecretNames |-> [uid |-> TRUE, data |-> KeyData]]
    /\ now = 0
    /\ remote = FreshRemote
    /\ rc = [r \in Records |-> IdleRC]
    /\ hist = [r \in Records |-> NoHistory(TRUE)]
    /\ OthersIdle

StepsShared(r) ==
    \/ Start(r, TRUE, "ok")
    \/ KubeUpdateMeta(r, "ok")
    \/ CheckSystem(r, "ok")
    \/ LoadSecret(r, "ok")
    \/ DelUpdateStatus(r, "ok")
    \/ ReadSystem(r, "ok")
    \/ CheckConn(r, "SUCCESS")
    \/ AddConn(r, "ok")
    \/ CreateResource(r, "ok")
    \/ DeleteResource(r, "ok")
    \/ \E o \in DeleteConnOutcomes : DeleteConn(r, o)
    \/ \E o \in {"ok", "fail"} : Finalize(r, o)
    \/ UpdateStatus(r, "ok")
    \/ Drop(r)

NextShared == \E r \in Records : StepsShared(r) \/ EnvMarkDeleted(r)

SpecShared == InitShared /\ [][NextShared]_vars

-----------------------------------------------------------------------------
(* One record of any store type, with any signature version and endpoint   *)
(* and a secret whose values may hold a control character, created then    *)
(* deleted by its owner.  The parent system is live and every call is      *)
(* answered with success; the host calls Reconcile when the record changed *)
(* or a retry was asked for, and a call in progress goes on.               *)

EndpointPool == {NoEndpoint,
                 [scheme |-> "", rest |-> "h1", parses |-> TRUE],
                 [scheme |-> "", rest |-> "%zz", parses |-> FALSE]}

SignaturePool == {"", S3SignatureVersionV4, "v3"}

KindSpecs ==
    {MkSpec(NSStoreTypeAWSS3, "s1", NoEndpoint, "", "", FALSE),
     MkSpec(NSStoreTypeAzureBlob, "s1", NoEndpoint, "", "", FALSE),
     MkSpec(NSStoreTypeNSFS, "", NoEndpoint, "", "", FALSE),
     MkSpec("google-cloud-storage", "", NoEndpoint, "", "", FALSE)}
    \cup {MkSpec(t, "s1", e, v, "", FALSE) :
            t \in {NSStoreTypeS3Compatible, NSStoreTypeIBMCos},
            e \in EndpointPool, v \in SignaturePool}

\* a secret with a value under every key
GoodData == [k \in SecretKeys |-> <<"A", " ">>]

\* the same with a control character in the identities, or in the secret keys
DataPool ==
    {GoodData,
     [k \in SecretKeys |-> IF k \in {"AWS_ACCESS_KEY_ID", "IBM_COS_ACCESS_KEY_ID",
                                     "AccountName"}
                           THEN <<"A", "^A">> ELSE <<"B">>],
     [k \in SecretKeys |-> IF k \in {"AWS_SECRET_ACCESS_KEY", "IBM_COS_SECRET_ACCESS_KEY",
                                     "AccountKey"}
                           THEN <<"^A">> ELSE <<"A">>]}

InitKinds ==
    /\ store \in {[r \in Records |-> IF r = "ns1" THEN NewRecord(sp) ELSE NoRecord] :
                      sp \in KindSpecs}
    /\ nooBaa = TRUE
    /\ secrets \in {[sn \in SecretNames |-> [uid |-> TRUE, data |-> d]] : d \in DataPool}
    /\ now = 0
    /\ remote = FreshRemote
    /\ rc = [r \in Records |-> IdleRC]
    /\ hist = [r \in Records |-> NoHistory(store[r].uid = "live")]
    /\ OthersIdle

StepsKinds(r) ==
    \/ Retry(r)
    \/ CheckSystem(r, "ok")
    \/ LoadSecret(r, "ok")
    \/ KubeUpdateMeta(r, "ok")
    \/ DelUpdateStatus(r, "ok")
    \/ ReadSystem(r, "ok")
    \/ CheckConn(r, "SUCCESS")
    \/ AddConn(r, "ok")
    \/ CreateResource(r, "ok")
    \/ UpdateAccount(r, "ok")
    \/ DeleteResource(r, "ok")
    \/ DeleteConn(r, "ok")
    \/ Finalize(r, "ok")
    \/ UpdateStatus(r, "ok")
    \/ Drop(r)

EnvKinds ==
    \/ EnvMarkDeleted("ns1")
    \/ EnvAccountDefault("user", "ns1")

NextKinds == StepsKinds("ns1") \/ EnvKinds

SpecKinds == InitKinds /\ [][NextKinds]_vars /\ WF_vars(StepsKinds("ns1"))

-----------------------------------------------------------------------------
(* One record whose owner edits the endpoint of its spec at any time, so   *)
(* that the resource handle created for it no longer fits; every call is   *)
(* answered with success.                                                  *)

\* the owner of the record r replaces its spec by sp
EnvEditSpec(r, sp) ==
    /\ ~Returning
    /\ store[r].uid = "live"
    /\ ~store[r].deleting
    /\ store[r].spec # sp
    /\ store' = [store EXCEPT ![r].spec = sp]
    /\ rc' = Stale(rc, r)
    /\ hist' = [hist EXCEPT ![r].okQuiet = FALSE, ![r].wanted = TRUE]
    /\ UNCHANGED <<others, nooBaa, secrets, now, remote>>

StepsDrift(r) ==
    \/ Start(r, TRUE, "ok")
    \/ KubeUpdateMeta(r, "ok")
    \/ CheckSystem(r, "ok")
    \/ LoadSecret(r, "ok")
    \/ ReadSystem(r, "ok")
    \/ CheckConn(r, "SUCCESS")
    \/ AddConn(r, "ok")
    \/ CreateResource(r, "ok")
    \/ \E o \in CallOutcomes : UpdateStatus(r, o)
    \/ Drop(r)

NextDrift == StepsDrift("ns1") \/ \E sp \in {SpecS3, SpecOther} : EnvEditSpec("ns1", sp)

SpecDrift == InitRetry /\ [][NextDrift]_vars

-----------------------------------------------------------------------------
(* util.CombineErrors called on every list of up to MaxErrs errors: nil,   *)
(* two plain errors and two persistent errors, in any order and number.    *)

\* no namespace store is reconciled
ReconcilerIdle ==
    /\ store = [r \in Records |-> NoRecord]
    /\ nooBaa = TRUE
    /\ secrets = [sn \in SecretNames |-> [uid |-> TRUE, data |-> KeyData]]
    /\ now = 0
    /\ remote = FreshRemote
    /\ rc = [r \in Records |-> IdleRC]
    /\ hist = [r \in Records |-> NoHistory(FALSE)]

ErrorPool == {NoError, PlainError("t1"), PlainError("t2"),
              NewPersistentError("P1", "p1"), NewPersistentError("P2", "p2")}

InitCombine ==
    /\ ReconcilerIdle
    /\ hac = IdleHAC
    /\ kms = IdleKMS
    /\ comb \in {[IdleComb EXCEPT !.pc = "called", !.errs = e] :
                    e \in UNION {[1..n -> ErrorPool] : n \in 0..MaxErrs}}

\* the call returns
CombineReturn ==
    /\ comb.pc = "called"
    /\ comb' = [comb EXCEPT !.pc = "returned", !.result = CombineErrors(comb.errs)]
    /\ UNCHANGED <<nsvars, hac, kms>>

SpecCombine == InitCombine /\ [][CombineReturn]_vars

-----------------------------------------------------------------------------
(* The high availability controller with any set of pods running, nodes    *)
(* that fail one after the other, and a cluster API that answers every     *)
(* call; the host runs the Reconcile calls it queued.                      *)

InitHAC ==
    /\ ReconcilerIdle
    /\ comb = IdleComb
    /\ kms = IdleKMS
    /\ hac \in {[IdleHAC EXCEPT !.pods = ps] :
                   ps \in SUBSET {PodPool[i] : i \in 1..Len(PodPool)}}

StepsHAC ==
    \/ \E n \in Nodes : NewHAC(n)
    \/ HACList("ok")
    \/ HACDelete("ok")
    \/ HACReturn

NextHAC == StepsHAC \/ \E n \in Nodes : NodeNotReady(n)

SpecHAC == InitHAC /\ [][NextHAC]_vars /\ WF_vars(StepsHAC)

\* the same with every answer to the list call and failing delete calls
StepsHACFail ==
    \/ \E n \in Nodes : NewHAC(n)
    \/ \E o \in ListAnswers : HACList(o)
    \/ \E o \in {"ok", "fail"} : HACDelete(o)
    \/ HACReturn
    \/ \E again \in BOOLEAN : HACPanicked(again)

NextHACFail == StepsHACFail \/ \E n \in Nodes : NodeNotReady(n)

SpecHACFail == InitHAC /\ [][NextHACFail]_vars

-----------------------------------------------------------------------------
(* util.ValidateConnectionDetails called with any connection details, any  *)
(* token secret name and any content of the namespace.                     *)

\* the connection details a call is given
KmsConfigs ==
    [VAULT_AUTH_METHOD : {Absent, VaultAuthMethodK8S, "token"},
     KMS_PROVIDER      : {Absent, KmsProviderVault, "invalid"},
     VAULT_ADDR        : {Absent, "", "https://vault"},
     VAULT_CAPATH      : {Absent, "", "/etc/ca"},
     VAULT_CACERT      : {Absent, "", "s1"},
     VAULT_CLIENT_CERT : {Absent, "", "s1"},
     VAULT_CLIENT_KEY  : {Absent, "", "s1"}]

KmsClusters ==
    {[s1 |-> x, s2 |-> NoSecret] :
        x \in {NoSecret} \cup {[exists |-> TRUE, data |-> d] :
                                 d \in [SecretFields -> {Absent, "", "v"}]}}

InitKMS ==
    /\ ReconcilerIdle
    /\ comb = IdleComb
    /\ hac = IdleHAC
    /\ kms \in {[IdleKMS EXCEPT !.pc = "called", !.config = c,
                                !.tokenSecretName = t, !.cluster = cl] :
                   c \in KmsConfigs, t \in {""} \cup KmsSecretNames,
                   cl \in KmsClusters}

\* the call returns one of the errors it can return
ValidateReturn ==
    /\ kms.pc = "called"
    /\ \E e \in ValidateConnectionDetails(kms.config, kms.tokenSecretName, kms.cluster) :
          kms' = [kms EXCEPT !.pc = "returned", !.err = e]
    /\ UNCHANGED <<nsvars, comb, hac>>

SpecKMS == InitKMS /\ [][ValidateReturn]_vars

-----------------------------------------------------------------------------
(* What a Reconcile call has done so far, read off its Reconciler.         *)

HasCall(c, api, res) ==
    \E i \in 1..Len(c.calls) : c.calls[i].api = api /\ c.calls[i].res = res

Issued(c, api) == \E i \in 1..Len(c.calls) : c.calls[i].api = api

\* the arguments of the calls to api, in order
RECURSIVE ArgsOf(_, _)
ArgsOf(calls, api) ==
    IF calls = <<>> THEN <<>>
    ELSE (IF Head(calls).api = api THEN <<Head(calls).arg>> ELSE <<>>)
         \o ArgsOf(Tail(calls), api)

\* every call to api was answered ok, and came before the first call to later
AllOkBefore(c, api, later) ==
    \A i \in 1..Len(c.calls) :
        c.calls[i].api = api =>
            /\ c.calls[i].res = "ok"
            /\ \A j \in 1..Len(c.calls) : c.calls[j].api = later => i < j

\* the call has ended and returned to the host
Returned(c) == c.pc = "done" /\ c.result = "returned"

\* the call has returned after its phases, or its deletion, and the final status update
RanToEnd(c) == Returned(c) /\ c.ns.trace # <<>>

-----------------------------------------------------------------------------
(* C1.  The finalizer of a record leaves the store only in a deletion pass *)
(* (the record is marked for deletion), and only if that pass found the    *)
(* parent system absent, or else read the remote state, found no resource  *)
(* handle or deleted it after resetting every account that defaulted to    *)
(* it, and found no matching connection or had its delete call answered    *)
(* ok or IN_USE.                                                           *)

CleanupDone(r) ==
    LET c == rc[r]
    IN  /\ c.ns.deleting
        /\ c.finRemoved
        /\ \/ ~c.nb /\ c.calls = <<>>
           \/ /\ c.nb
              /\ HasCall(c, "read_system", "ok")
              /\ \/ c.nsr = "" /\ ~Issued(c, "delete_namespace_resource")
                 \/ /\ HasCall(c, "delete_namespace_resource", "ok")
                    /\ ArgsOf(c.calls, "update_account_s3_access") = c.detach
                    /\ AllOkBefore(c, "update_account_s3_access",
                                   "delete_namespace_resource")
              /\ \/ ~c.eci.set /\ ~Issued(c, "delete_external_connection")
                 \/ HasCall(c, "delete_external_connection", "ok")
                 \/ HasCall(c, "delete_external_connection", "IN_USE")

C1_FinalizerGate ==
    [][\A r \in Records :
          (Finalizer \in store[r].finalizers /\ Finalizer \notin store'[r].finalizers)
              => store[r].deleting /\ CleanupDone(r)']_vars

\* a pass removed the finalizer after detaching an account, deleting the resource
\* handle and deleting the connection
C1_Witness ==
    /\ rc["ns1"].finRemoved
    /\ rc["ns1"].nb
    /\ rc["ns1"].detach # <<>>
    /\ HasCall(rc["ns1"], "delete_namespace_resource", "ok")
    /\ HasCall(rc["ns1"], "delete_external_connection", "ok")

-----------------------------------------------------------------------------
(* C2.  A deletion pass whose delete_namespace_resource call is answered   *)
(* IN_USE does not remove the finalizer and issues no                      *)
(* delete_external_connection call: it ends there, the finalizer still in  *)
(* the store.                                                              *)

C2_InUseKeepsFinalizer ==
    \A r \in Records :
        HasCall(rc[r], "delete_namespace_resource", "IN_USE") =>
            /\ ~rc[r].finRemoved
            /\ Finalizer \in store[r].finalizers
            /\ ~Issued(rc[r], "delete_external_connection")
            /\ rc[r].pc \in {"UpdateStatus", "done"}

\* a retried deletion is answered IN_USE again, with a matching connection at hand
C2_Witness ==
    /\ hist["ns1"].sawInUse
    /\ rc["ns1"].pc = "DeleteResource"
    /\ rc["ns1"].eci.set
    /\ ResourceInUse(remote, "ns1")

-----------------------------------------------------------------------------
(* C4.  A deletion pass that finds the parent system absent issues no      *)
(* remote API call: after the Deleting phase is published its only call is *)
(* the update that removes the finalizer.                                  *)

C4_AbsentSystemNoRemoteCall ==
    \A r \in Records :
        LET c == rc[r]
        IN  (c.ns.deleting /\ ~c.nb /\ c.pc \notin {"idle", "KubeUpdateMeta", "CheckSystem",
                                                    "LoadSecret"} /\ c.result # "panicked")
            => /\ c.calls = <<>>
               /\ c.pc \in {"DelUpdateStatus", "Finalize", "UpdateStatus", "done"}
               /\ c.pc \in {"UpdateStatus", "done"} =>
                     \/ c.err = NoError /\ Finalizer \notin c.ns.finalizers
                     \/ c.err.message \in {"UpdateStatus failed",
                                           "failed to remove finalizer"}

\* such a pass removed the finalizer
C4_Witness ==
    /\ rc["ns1"].ns.deleting
    /\ ~rc["ns1"].nb
    /\ rc["ns1"].finRemoved
    /\ rc["ns1"].pc = "done"

-----------------------------------------------------------------------------
(* C5.  Every return of Reconcile carries a nil error; an error of the     *)
(* phases or of the deletion shows in the conditions of the record, and,   *)
(* unless it is persistent, in the retry delay.                            *)

-----------------------------------------------------------------------------
(* C6.  As claimed: a call that ends with a persistent error sets phase    *)
(* Rejected with the reason and message of the error, emits a warning      *)
(* event and returns no retry delay.                                       *)

C6_AsClaimed ==
    \A r \in Records :
        (Returned(rc[r]) /\ rc[r].err.kind = "persistent") =>
            /\ rc[r].ns.phase = PhaseRejected
            /\ rc[r].ns.cond.reason = rc[r].err.reason
            /\ rc[r].ns.cond.message = rc[r].err.message
            /\ rc[r].events = <<[type |-> EventTypeWarning, reason |-> rc[r].err.reason]>>
            /\ rc[r].requeue = 0

(* C6, amended.  A call that ends with a persistent error sets phase       *)
(* Rejected and the error condition with the reason and message of the     *)
(* error; it emits one warning event when the Reconciler has an event      *)
(* recorder and none otherwise; it returns no retry delay when the final   *)
(* status update succeeds and 3 seconds when that update fails.            *)

C6_PersistentRejected ==
    \A r \in Records :
        (Returned(rc[r]) /\ rc[r].err.kind = "persistent") =>
            /\ rc[r].ns.phase = PhaseRejected
            /\ rc[r].ns.cond = SetErrorCondition(rc[r].err.reason, rc[r].err.message)
            /\ rc[r].events = IF rc[r].recorder
                              THEN <<[type |-> EventTypeWarning,
                                      reason |-> rc[r].err.reason]>>
                              ELSE <<>>
            /\ rc[r].requeue = IF rc[r].published THEN 0 ELSE RequeueSeconds

\* the deletion path ended with a persistent error, published with a warning event
C6_Witness ==
    /\ Returned(rc["ns1"])
    /\ rc["ns1"].err.kind = "persistent"
    /\ rc["ns1"].ns.deleting
    /\ rc["ns1"].published
    /\ rc["ns1"].events # <<>>

-----------------------------------------------------------------------------
(* C7.  A call that ends with an error that is not persistent sets the     *)
(* progressing condition with the text of the error, emits no event and    *)
(* returns a retry delay of 3 seconds.                                     *)

C7_TransientRetried ==
    \A r \in Records :
        (Returned(rc[r]) /\ rc[r].err # NoError /\ ~IsPersistentError(rc[r].err)) =>
            /\ rc[r].ns.cond = SetProgressingCondition("TemporaryError", rc[r].err.message)
            /\ rc[r].events = <<>>
            /\ rc[r].requeue = RequeueSeconds

\* a published transient error of the check call, the Reconciler having a recorder
C7_Witness ==
    /\ Returned(rc["ns1"])
    /\ rc["ns1"].err.kind = "transient"
    /\ rc["ns1"].recorder
    /\ rc["ns1"].published
    /\ HasCall(rc["ns1"], "check_external_connection", "TIMEOUT")

-----------------------------------------------------------------------------
(* C8.  As claimed: a call that ends with a transient error leaves the     *)
(* phase as the record had it in the store when the call started.          *)

C8_AsClaimed ==
    \A r \in Records :
        (Returned(rc[r]) /\ rc[r].err.kind = "transient") =>
            rc[r].ns.phase = rc[r].startPhase

(* C8, amended.  The handling of a transient error does not touch the      *)
(* phase: the call ends in, and publishes, the phase of the stage that     *)
(* failed, which that stage set when it began: Verifying when no remote    *)
(* call was made, Connecting when read_system failed, Creating afterwards, *)
(* and Deleting on the deletion path.  It is the phase the call started    *)
(* with only if the record already was in that phase.                      *)

StageOf(c) ==
    IF c.ns.deleting THEN PhaseDeleting
    ELSE IF c.calls = <<>> THEN PhaseVerifying
    ELSE IF c.calls[Len(c.calls)].api = "read_system" THEN PhaseConnecting
    ELSE PhaseCreating

C8_TransientKeepsStagePhase ==
    \A r \in Records :
        (Returned(rc[r]) /\ rc[r].err.kind = "transient") =>
            /\ rc[r].ns.phase = StageOf(rc[r])
            /\ rc[r].published => store[r].phase = StageOf(rc[r])

\* a record that was Ready ends a call with a transient error, published as Connecting
C8_Witness ==
    /\ Returned(rc["ns1"])
    /\ rc["ns1"].err.kind = "transient"
    /\ rc["ns1"].startPhase = PhaseReady
    /\ rc["ns1"].published
    /\ store["ns1"].phase = PhaseConnecting

-----------------------------------------------------------------------------
(* C3.  A delete_namespace_resource call answered IN_USE ends the Reconcile *)
(* call with a transient error and a retry delay; and once the resource    *)
(* handle of a record marked for deletion is no longer in use after such   *)
(* an answer, the record is eventually removed (its finalizer taken off),  *)
(* unless the handle comes into use again.                                 *)

InUseRetried(r) ==
    (Returned(rc[r]) /\ HasCall(rc[r], "delete_namespace_resource", "IN_USE")) =>
        /\ rc[r].err.kind = "transient"
        /\ rc[r].requeue = RequeueSeconds

C3_InUseThenDeleted ==
    /\ [](\A r \in Records : InUseRetried(r))
    /\ (/\ store["ns1"].uid = "live"
        /\ store["ns1"].deleting
        /\ hist["ns1"].sawInUse
        /\ ~ResourceInUse(remote, "ns1"))
       ~> (store["ns1"].uid = "gone" \/ ResourceInUse(remote, "ns1"))

\* the record is removed by a pass that follows one answered IN_USE
C3_Witness ==
    /\ hist["ns1"].sawInUse
    /\ rc["ns1"].finRemoved
    /\ store["ns1"].uid = "gone"
    /\ HasCall(rc["ns1"], "delete_namespace_resource", "ok")

-----------------------------------------------------------------------------
(* C9.  A Reconcile call that follows a call of the same record that ended *)
(* without error, with nothing changed in between or meanwhile by anyone   *)
(* else, makes no remote call but read_system, and the remote system holds *)
(* one resource handle of the record's name.                               *)

ResourcesNamed(rem, name) ==
    Cardinality({i \in 1..Len(rem.namespace_resources) :
                    rem.namespace_resources[i].name = name})

C9_Idempotent ==
    \A r \in Records :
        (rc[r].prevOk /\ rc[r].quiet /\ rc[r].pc # "idle") =>
            /\ \A i \in 1..Len(rc[r].calls) : rc[r].calls[i].api = "read_system"
            /\ Len(rc[r].calls) <= 1
            /\ rc[r].pc \notin {"CheckConn", "AddConn", "CreateResource"}
            /\ ResourcesNamed(remote, r) = 1

\* the second call ended, having only read the system
C9_Witness ==
    /\ rc["ns1"].prevOk
    /\ rc["ns1"].quiet
    /\ Returned(rc["ns1"])
    /\ rc["ns1"].err = NoError
    /\ rc["ns1"].published
    /\ HasCall(rc["ns1"], "read_system", "ok")

-----------------------------------------------------------------------------
(* C10.  When read_system lists a connection with the endpoint type, the   *)
(* endpoint and the identity of the connection the record asks for, the    *)
(* Reconcile call adopts a listed connection with that triple: it checks   *)
(* and adds no connection, and its create_namespace_resource call names    *)
(* the adopted connection, not the record.                                 *)

\* the connection the record r asks for, before the read
DesiredConn(r) == MakeExternalConnectionParams(r, rc[r].ns.spec, rc[r].secret.data)

Twin(c, d) ==
    /\ c.endpoint_type = d.endpoint_type
    /\ c.endpoint = d.endpoint
    /\ c.identity = d.identity

\* this step is the read_system call of r, answered
ReadAnswered(r) ==
    /\ rc[r].pc = "ReadSystem"
    /\ Len(rc'[r].calls) = Len(rc[r].calls) + 1
    /\ rc'[r].calls[Len(rc'[r].calls)].res = "ok"

C10_Dedup ==
    [][\A r \in Records :
          LET conns == AllConnections(remote.accounts)
              d == DesiredConn(r)
          IN  /\ (/\ ReadAnswered(r)
                  /\ d.err = NoError
                  /\ \E i \in 1..Len(conns) : Twin(conns[i], d.conn))
                 => /\ rc'[r].eci.set
                    /\ \E i \in 1..Len(conns) :
                          Twin(conns[i], d.conn) /\ conns[i].name = rc'[r].eci.name
                    /\ rc'[r].pc \notin {"CheckConn", "AddConn"}
                    /\ rc'[r].pc = "CreateResource" =>
                          rc'[r].create.connection = rc'[r].eci.name
              /\ rc'[r].eci.set =>
                    /\ ~Issued(rc'[r], "check_external_connection")
                    /\ ~Issued(rc'[r], "add_external_connection")
                    /\ \A i \in 1..Len(rc'[r].calls) :
                          rc'[r].calls[i].api = "create_namespace_resource" =>
                              rc'[r].calls[i].arg = rc'[r].eci.name]_vars

\* the second record created its resource handle on the connection of the first
C10_Witness ==
    /\ rc["ns2"].eci.set
    /\ rc["ns2"].eci.name = "ns1"
    /\ HasCall(rc["ns2"], "create_namespace_resource", "ok")
    /\ ConnCount(remote) = 1

-----------------------------------------------------------------------------
(* C11.  As claimed: when read_system lists several connections with the   *)
(* endpoint type, the endpoint and the identity the record asks for, the   *)
(* connection the Reconcile call adopts is the first of them in the        *)
(* listing (accounts in order, and the connections of each in order).      *)

\* the index of the first connection of conns with the triple of d, 0 when none has it
FirstTwin(conns, d) ==
    IF \E i \in 1..Len(conns) : Twin(conns[i], d)
    THEN CHOOSE i \in 1..Len(conns) :
            /\ Twin(conns[i], d)
            /\ \A j \in 1..(i-1) : ~Twin(conns[j], d)
    ELSE 0

C11_AsClaimed ==
    [][\A r \in Records :
          LET conns == AllConnections(remote.accounts)
              d == DesiredConn(r)
          IN  (ReadAnswered(r) /\ d.err = NoError /\ FirstTwin(conns, d.conn) # 0)
              => /\ rc'[r].eci = conns[FirstTwin(conns, d.conn)]
                 /\ rc'[r].add.name = conns[FirstTwin(conns, d.conn)].name]_vars

-----------------------------------------------------------------------------
(* C12.  With a valid spec, a live parent system, the secret present and   *)
(* every call answered with success, a new record is published Ready by    *)
(* its first Reconcile call, hence eventually; and the phases that call    *)
(* sets are Verifying, Connecting, Creating and Ready, in that order.      *)

PhaseOrder == <<PhaseVerifying, PhaseConnecting, PhaseCreating, PhaseReady>>

IsPrefix(s, t) == Len(s) <= Len(t) /\ \A i \in 1..Len(s) : s[i] = t[i]

ConvergesAtOnce(r) ==
    /\ IsPrefix(rc[r].ns.trace, PhaseOrder)
    /\ rc[r].ns.trace # <<>> => rc[r].ns.trace[1] = PhaseVerifying
    /\ Returned(rc[r]) =>
          /\ rc[r].ns.trace = PhaseOrder
          /\ rc[r].published
          /\ store[r].phase = PhaseReady
          /\ rc[r].requeue = 0

C12_Convergence ==
    /\ [](\A r \in Records : ConvergesAtOnce(r))
    /\ \A r \in Records : (store[r].phase = PhaseNew) ~> (store[r].phase = PhaseReady)

\* a record is published Ready by a call that added a connection and created its
\* resource handle
C12_Witness ==
    /\ Returned(rc["ns1"])
    /\ store["ns1"].phase = PhaseReady
    /\ rc["ns1"].startPhase = PhaseNew
    /\ HasCall(rc["ns1"], "add_external_connection", "ok")
    /\ HasCall(rc["ns1"], "create_namespace_resource", "ok")

-----------------------------------------------------------------------------
(* C13.  For a record whose endpoint url.Parse rejects, no Reconcile call  *)
(* issues check_external_connection, add_external_connection or            *)
(* create_namespace_resource, and a call whose read_system call is         *)
(* answered ends in phase Rejected with reason InvalidEndpoint, which it   *)
(* publishes if its status update succeeds.                                *)

BadEndpoint(spec) ==
    /\ spec.type \in {NSStoreTypeS3Compatible, NSStoreTypeIBMCos}
    /\ spec.endpoint # NoEndpoint
    /\ ~spec.endpoint.parses

C13_InvalidEndpoint ==
    \A r \in Records :
        (store[r].uid = "live" /\ BadEndpoint(store[r].spec)) =>
            /\ ~Issued(rc[r], "check_external_connection")
            /\ ~Issued(rc[r], "add_external_connection")
            /\ ~Issued(rc[r], "create_namespace_resource")
            /\ HasCall(rc[r], "read_system", "ok") =>
                  /\ rc[r].pc \in {"UpdateStatus", "done"}
                  /\ rc[r].ns.phase = PhaseRejected
                  /\ rc[r].ns.cond.reason = "InvalidEndpoint"
                  /\ rc[r].ns.cond.degraded = "True"
                  /\ rc[r].published => store[r].phase = PhaseRejected

\* the rejection is published for a new record
C13_Witness ==
    /\ BadEndpoint(store["ns1"].spec)
    /\ Returned(rc["ns1"])
    /\ rc["ns1"].published
    /\ ~rc["ns1"].ns.deleting
    /\ store["ns1"].phase = PhaseRejected
    /\ store["ns1"].cond.reason = "InvalidEndpoint"
    /\ rc["ns1"].calls = <<[api |-> "read_system", arg |-> "", res |-> "ok"]>>

-----------------------------------------------------------------------------
(* C14.  When a record that is not marked for deletion, whose parent       *)
(* system exists and whose spec names a secret, is reconciled while the    *)
(* secret does not exist, the call ends with a transient error (retry in   *)
(* 3 seconds, no remote call) if the record is younger than 5 minutes, and *)
(* with the persistent error MissingSecret (phase Rejected, no remote      *)
(* call) if it is 5 minutes old or older.                                  *)

\* this step is the load of the secret of r, found missing, on the forward path
SecretFoundMissing(r) ==
    /\ rc[r].pc = "LoadSecret"
    /\ rc'[r].pc # "LoadSecret"
    /\ rc'[r].result # "panicked"
    /\ ~rc[r].ns.deleting
    /\ rc[r].nb
    /\ GetNamespaceStoreSecret(rc[r].ns.spec) # ""
    /\ ~secrets[GetNamespaceStoreSecret(rc[r].ns.spec)].uid

C14_GraceWindow ==
    [][\A r \in Records :
          SecretFoundMissing(r) =>
              /\ rc'[r].pc = "UpdateStatus"
              /\ rc'[r].calls = <<>>
              /\ IF now - store[r].created < 5
                 THEN /\ rc'[r].err.kind = "transient"
                      /\ rc'[r].requeue = 3
                      /\ rc'[r].ns.phase = PhaseVerifying
                 ELSE /\ rc'[r].err.kind = "persistent"
                      /\ rc'[r].err.reason = "MissingSecret"
                      /\ rc'[r].requeue = 0
                      /\ rc'[r].ns.phase = PhaseRejected]_vars

\* the record is rejected at the age of exactly 5 minutes, after a retry at a lesser age
C14_Witness ==
    /\ now - store["ns1"].created = 5
    /\ rc["ns1"].pc = "UpdateStatus"
    /\ rc["ns1"].err.reason = "MissingSecret"
    /\ rc["ns1"].startPhase = PhaseVerifying
    /\ ~secrets["s1"].uid

-----------------------------------------------------------------------------
(* C15.  As claimed: a Reconcile call that ends without error while the    *)
(* mode is AUTH_FAILED sets phase Rejected; it emits one Warning event if  *)
(* the mode changed since the last call that ended without error, and no   *)
(* event if that call already saw the same mode.                           *)

\* the call follows a call that ended without error, the record (its mode too) and
\* all it reads being untouched since that call began
SameModeAsBefore(c) == c.prevOk /\ c.quiet

C15_AsClaimed ==
    \A r \in Records :
        (RanToEnd(rc[r]) /\ rc[r].err = NoError /\ rc[r].ns.mode = "AUTH_FAILED") =>
            /\ rc[r].ns.phase = PhaseRejected
            /\ IF SameModeAsBefore(rc[r])
               THEN rc[r].events = <<>>
               ELSE Len(rc[r].events) = 1 /\ rc[r].events[1].type = EventTypeWarning

-----------------------------------------------------------------------------
(* C16.  A Reconcile call of a record not marked for deletion that ends    *)
(* without error sets, and publishes if its status update succeeds, phase  *)
(* Ready for the mode OPTIMAL, phase Rejected for the modes IO_ERRORS,     *)
(* STORAGE_NOT_EXIST and AUTH_FAILED, and phase Ready for any other mode,  *)
(* the empty mode included.                                                *)

TablePhase(mode) ==
    CASE mode = "OPTIMAL" -> PhaseReady
      [] mode \in {"IO_ERRORS", "STORAGE_NOT_EXIST", "AUTH_FAILED"} -> PhaseRejected
      [] OTHER -> PhaseReady

C16_ModeTable ==
    \A r \in Records :
        (RanToEnd(rc[r]) /\ rc[r].err = NoError /\ ~rc[r].ns.deleting) =>
            /\ rc[r].ns.phase = TablePhase(rc[r].ns.mode)
            /\ rc[r].published =>
                  /\ store[r].phase = TablePhase(rc[r].ns.mode)
                  /\ store[r].mode = rc[r].ns.mode

\* the phase Rejected is published for the mode IO_ERRORS
C16_Witness ==
    /\ Returned(rc["ns1"])
    /\ rc["ns1"].err = NoError
    /\ rc["ns1"].published
    /\ store["ns1"].mode = "IO_ERRORS"
    /\ store["ns1"].phase = PhaseRejected

-----------------------------------------------------------------------------
\* the last call a Reconciler made
LastCall(c) == c.calls[Len(c.calls)]

\* how the check-connection step of record r ended: "proceed" when the call
\* goes on to add the connection, else the kind of the error it ends with
CheckVerdict(r) ==
    IF rc[r].pc' = "AddConn" THEN "proceed" ELSE rc[r].err.kind'

\* C17: when check_external_connection answers with a status, the call goes
\* on to add the connection for SUCCESS; it ends with a transient error for
\* INVALID_CREDENTIALS and INVALID_ENDPOINT while the record is younger than
\* 5 minutes and with a persistent error from 5 minutes on; with a
\* persistent error for TIME_SKEW and NOT_SUPPORTED at every age; and with a
\* transient error for TIMEOUT, UNKNOWN_FAILURE and any other status.
C17_Classification ==
    [][\A r \in Records :
         (rc[r].pc = "CheckConn" /\ rc[r].pc' # "CheckConn"
            /\ LastCall(rc[r])'.res \in CheckStatuses) =>
            LET status == LastCall(rc[r])'.res
                age == now - rc[r].ns.created
            IN  /\ LastCall(rc[r])'.api = "check_external_connection"
                /\ CheckVerdict(r) =
                     CASE status = "SUCCESS" -> "proceed"
                       [] status \in {"INVALID_CREDENTIALS", "INVALID_ENDPOINT"} ->
                             IF age < 5 THEN "transient" ELSE "persistent"
                       [] status \in {"TIME_SKEW", "NOT_SUPPORTED"} -> "persistent"
                       [] OTHER -> "transient"
                /\ CheckVerdict(r) = "persistent" =>
                       (rc[r].ns.phase' = PhaseRejected /\ rc[r].requeue' = 0)
                /\ CheckVerdict(r) = "transient" => rc[r].requeue' = RequeueSeconds]_vars

\* C17 witness: a record of 5 minutes or more was answered INVALID_CREDENTIALS
\* and the call ended with a persistent error
C17_Witness ==
    \E r \in Records :
        /\ rc[r].pc = "UpdateStatus"
        /\ rc[r].calls # <<>>
        /\ LastCall(rc[r]).api = "check_external_connection"
        /\ LastCall(rc[r]).res = "INVALID_CREDENTIALS"
        /\ now - rc[r].ns.created >= 5
        /\ rc[r].err.kind = "persistent"

-----------------------------------------------------------------------------
(* C18.  As claimed: while a call does the work of a phase, the stored     *)
(* status of the record, if nobody else has written the record since the   *)
(* call loaded it, shows that phase with a Progressing condition.          *)

\* the call is at a remote call of ReconcilePhaseConnecting or ReconcilePhaseCreating
InPhaseWork(c) ==
    \/ c.pc = "ReadSystem" /\ ~c.ns.deleting
    \/ c.pc \in {"CheckConn", "AddConn", "CreateResource"}

\* the phase whose work the call is doing
PhaseAtWork(c) == IF c.pc = "ReadSystem" THEN PhaseConnecting ELSE PhaseCreating

C18_AsClaimed ==
    \A r \in Records :
        (InPhaseWork(rc[r]) /\ store[r].uid = "live" /\ ~rc[r].stale) =>
            /\ store[r].phase = PhaseAtWork(rc[r])
            /\ store[r].cond.progressing = "True"

(* C18, amended.  Each phase transition (to Verifying, Connecting,         *)
(* Creating) is set on the record in memory, with a Progressing condition, *)
(* before that phase's work starts, and is not published then: while the   *)
(* work of a phase is done the stored status keeps the phase and the       *)
(* conditions the call loaded, and the stored phase changes only in the    *)
(* status update that ends the call (or, on the deletion path, in the      *)
(* status update of the Deleting phase).                                   *)

C18_SetInMemory ==
    \A r \in Records :
        InPhaseWork(rc[r]) =>
            /\ rc[r].ns.phase = PhaseAtWork(rc[r])
            /\ rc[r].ns.cond.progressing = "True"
            /\ rc[r].ns.cond.reason = "NamespaceStorePhase" \o PhaseAtWork(rc[r])
            /\ IsPrefix(<<PhaseVerifying, PhaseConnecting>>, rc[r].ns.trace)
            /\ store[r].phase = rc[r].startPhase

C18_PublishedAtEnd ==
    \A r \in Records :
        store[r].phase' # store[r].phase =>
            /\ rc[r].pc \in {"UpdateStatus", "DelUpdateStatus"}
            /\ store[r].phase' = rc[r].ns.phase

C18_PhaseSetThenPublished == []C18_SetInMemory /\ [][C18_PublishedAtEnd]_vars

\* the call is about to create the resource, in phase Creating in memory, and
\* the stored status still shows the record as New without conditions
C18_Witness ==
    \E r \in Records :
        /\ rc[r].pc = "CreateResource"
        /\ rc[r].ns.phase = PhaseCreating
        /\ store[r].uid = "live" /\ ~rc[r].stale
        /\ store[r].phase = PhaseNew
        /\ store[r].cond = NoConditions

-----------------------------------------------------------------------------
(* C19.  On a record marked for deletion the stored phase becomes Deleting *)
(* before any call of the cleanup is made, and it becomes Deleting once    *)
(* over all the Reconcile calls of the record: no call publishes the       *)
(* transition to Deleting for a record whose status has shown Deleting     *)
(* before.                                                                 *)

\* the step publishes the transition of r to Deleting
PublishesDeleting(r) ==
    store[r].phase # PhaseDeleting /\ store[r].phase' = PhaseDeleting

\* the Reconciler c is at, or past, a call of the deletion's cleanup
CleanupStarted(c) ==
    \/ c.ns.deleting /\ c.pc = "ReadSystem"
    \/ c.pc \in {"UpdateAccount", "DeleteResource", "DeleteConn", "Finalize"}
    \/ c.ns.deleting /\ c.calls # <<>>

C19_AsClaimed ==
    [][\A r \in Records :
         /\ PublishesDeleting(r) => (~CleanupStarted(rc[r]) /\ ~hist[r].sawDeleting)
         /\ (CleanupStarted(rc[r])' /\ ~CleanupStarted(rc[r])) =>
                store[r].phase' = PhaseDeleting]_vars

-----------------------------------------------------------------------------
(* C20.  Whatever calls of a record were interrupted, and wherever, the    *)
(* remote system never holds more than one connection with the triple the  *)
(* record asks for nor more than one resource handle of its name; and a    *)
(* call whose read_system lists such a connection adds none, and one that  *)
(* lists the resource handle creates none and ends without error.          *)

\* the connection the record r asks for, from what the store holds
WantedConn(r) == MakeExternalConnectionParams(r, store[r].spec, secrets["s1"].data).conn

\* the number of registered connections with the triple of r
TwinCount(r) ==
    LET conns == AllConnections(remote.accounts)
    IN  Cardinality({i \in 1..Len(conns) : Twin(conns[i], WantedConn(r))})

C20_AtMostOne ==
    \A r \in Records : TwinCount(r) <= 1 /\ ResourcesNamed(remote, r) <= 1

C20_Detects ==
    \A r \in Records :
        ReadAnswered(r) =>
            /\ TwinCount(r) = 1 =>
                  (rc[r].eci.set' /\ rc[r].pc' \notin {"CheckConn", "AddConn"})
            /\ ResourcesNamed(remote, r) = 1 =>
                  /\ rc[r].pc' = "UpdateStatus"
                  /\ rc[r].err' = NoError
                  /\ rc[r].calls' = <<[api |-> "read_system", arg |-> "", res |-> "ok"]>>

C20_Resumable == []C20_AtMostOne /\ [][C20_Detects]_vars

\* a call ended without error having read the system and created the resource
\* handle, and no more: the connection was added by an earlier call that was
\* interrupted before it created the handle
C20_Witness ==
    \E r \in Records :
        /\ Returned(rc[r])
        /\ rc[r].err = NoError
        /\ Len(rc[r].calls) = 2
        /\ rc[r].calls[1].api = "read_system"
        /\ rc[r].calls[2].api = "create_namespace_resource"
        /\ rc[r].calls[2].res = "ok"
        /\ TwinCount(r) = 1
        /\ ResourcesNamed(remote, r) = 1

-----------------------------------------------------------------------------
(* C21.  As claimed: once the stored phase of a record is Rejected, no     *)
(* step changes it while the spec of the record stays as it is and the     *)
(* record is not marked for deletion.                                      *)

C21_AsClaimed ==
    [][\A r \in Records :
         (/\ store[r].phase = PhaseRejected
          /\ ~store[r].deleting /\ ~store[r].deleting'
          /\ store[r].spec' = store[r].spec) =>
            store[r].phase' = PhaseRejected]_vars

(* C21, amended.  A call that publishes Rejected asks for no retry, so the *)
(* engine itself leaves the record Rejected; the stored phase Rejected is  *)
(* changed only by the status update of a later Reconcile call, and such a *)
(* call, which runs its phases from Verifying whatever the stored phase,   *)
(* publishes the phase it ends in, Rejected or not, spec changed or not.   *)

C21_NoRetryAsked ==
    \A r \in Records :
        (Returned(rc[r]) /\ rc[r].published /\ rc[r].ns.phase = PhaseRejected) =>
            rc[r].requeue = 0

C21_LeftByLaterCall ==
    \A r \in Records :
        /\ (store[r].phase = PhaseRejected /\ store[r].phase' # PhaseRejected) =>
              /\ rc[r].pc \in {"UpdateStatus", "DelUpdateStatus"}
              /\ rc[r].startPhase = PhaseRejected \/ rc[r].pc = "UpdateStatus"
        /\ (rc[r].pc = "UpdateStatus" /\ rc[r].published') =>
              store[r].phase' = rc[r].ns.phase

C21_RejectedUntilNextCall == []C21_NoRetryAsked /\ [][C21_LeftByLaterCall]_vars

\* a call on a record stored as Rejected, not marked for deletion, published Ready
C21_Witness ==
    \E r \in Records :
        /\ Returned(rc[r])
        /\ rc[r].startPhase = PhaseRejected
        /\ ~rc[r].ns.deleting
        /\ rc[r].published
        /\ store[r].phase = PhaseReady

-----------------------------------------------------------------------------
(* C22.  As claimed: a call on a record not marked for deletion whose      *)
(* status update failed has made a second attempt before it returns with   *)
(* the status unpublished.                                                 *)

-----------------------------------------------------------------------------
(* C23.  CombineErrors returns nil exactly when every error passed is nil; *)
(* it returns a persistent error exactly when some error passed is         *)
(* persistent, wherever it stands in the list; and it returns the first    *)
(* persistent error passed if there is one, and else the first error       *)
(* passed that is not nil.                                                 *)

\* the index of the first error of errs of a kind in `kinds`, 0 when there is none
FirstOfKind(errs, kinds) ==
    IF \E i \in 1..Len(errs) : errs[i].kind \in kinds
    THEN CHOOSE i \in 1..Len(errs) :
            /\ errs[i].kind \in kinds
            /\ \A j \in 1..(i-1) : errs[j].kind \notin kinds
    ELSE 0

C23_CombineErrors ==
    comb.pc = "returned" =>
        LET errs == comb.errs
            p == FirstOfKind(errs, {"persistent"})
            n == FirstOfKind(errs, {"persistent", "transient"})
        IN  /\ comb.result = NoError <=> \A i \in 1..Len(errs) : errs[i] = NoError
            /\ comb.result.kind = "persistent" <=>
                   \E i \in 1..Len(errs) : errs[i].kind = "persistent"
            /\ p # 0 => comb.result = errs[p]
            /\ (p = 0 /\ n # 0) => comb.result = errs[n]

\* a plain error, then two persistent errors: the first persistent one is
\* returned, not the first error
C23_Witness ==
    /\ comb.pc = "returned"
    /\ comb.errs = <<PlainError("t1"), NewPersistentError("P2", "p2"),
                     NewPersistentError("P1", "p1")>>
    /\ comb.result = NewPersistentError("P2", "p2")

-----------------------------------------------------------------------------
(* C24.  As claimed: no step of a Reconcile call, nor of anyone else in    *)
(* the model, changes the spec of a record as the store holds it.          *)

C24_AsClaimed ==
    [][\A r \in Records : store[r].spec' = store[r].spec]_vars

-----------------------------------------------------------------------------
(* C25.  Once a node is NotReady, every pod labelled app=noobaa of the     *)
(* watched namespace that is scheduled on it is eventually deleted, when   *)
(* the list call and the delete calls succeed.                             *)

\* the pods the controller is to evict from the node n
ToEvict(n) ==
    {pod \in hac.pods : pod.app = "noobaa" /\ pod.namespace = "default" /\ pod.node = n}

C25_Eviction ==
    \A n \in Nodes : (~hac.ready[n]) ~> (ToEvict(n) = {})

\* node n1 is NotReady and the two noobaa pods that ran on it are deleted, the
\* other pods of the node being left
C25_Witness ==
    /\ ~hac.ready["n1"]
    /\ hac.pc = "idle"
    /\ hac.queue = {}
    /\ hac.pods = {PodPool[3], PodPool[4], PodPool[5]}

-----------------------------------------------------------------------------
(* C26: validation of the KMS connection details.                          *)

\* the token secret holds a token
TokenPresent(k) ==
    /\ k.tokenSecretName # ""
    /\ k.cluster[k.tokenSecretName].exists
    /\ k.cluster[k.tokenSecretName].data["token"] \notin {Absent, ""}

\* the TLS option names no secret, or one that exists and holds its field
TLSOptionPresent(k, o, field) ==
    k.config[o] \in {Absent, ""}
    \/ /\ k.cluster[k.config[o]].exists
       /\ k.cluster[k.config[o]].data[field] \notin {Absent, ""}

\* C26: a returned call gave an error when the provider is not vault, and,
\* with an auth method other than kubernetes, when the token secret name is
\* empty, the token secret does not exist or holds no token; it gave no
\* error only if moreover the vault address is present, no CA path is set
\* and every TLS secret named exists and holds its field
C26_Validation ==
    kms.pc = "returned" =>
        /\ kms.config["KMS_PROVIDER"] # "vault" => kms.err # ""
        /\ (kms.config["VAULT_AUTH_METHOD"] # "kubernetes" /\ ~TokenPresent(kms))
              => kms.err # ""
        /\ kms.err = "" =>
              /\ kms.config["VAULT_ADDR"] \notin {Absent, ""}
              /\ kms.config["VAULT_CAPATH"] \in {Absent, ""}
              /\ TLSOptionPresent(kms, "VAULT_CACERT", "cert")
              /\ TLSOptionPresent(kms, "VAULT_CLIENT_CERT", "cert")
              /\ TLSOptionPresent(kms, "VAULT_CLIENT_KEY", "key")

\* a call with a token secret and a TLS secret in use returned no error
C26_Witness ==
    /\ kms.pc = "returned"
    /\ kms.err = ""
    /\ kms.config["VAULT_AUTH_METHOD"] = "token"
    /\ kms.config["VAULT_CLIENT_KEY"] = "s1"

-----------------------------------------------------------------------------
(* C27.  In a deletion pass that found a resource handle, the delete call  *)
(* of the handle is issued only after an update call answered ok for every *)
(* account that the system info read in the pass lists with the handle as  *)
(* its default resource; once an update call has failed, the pass issues   *)
(* no delete call of the handle and does not remove the finalizer.         *)

\* the emails of the accounts of the remote system that default to `name`
Defaulting(rem, name) ==
    {rem.accounts[i].email : i \in {j \in 1..Len(rem.accounts) :
                                       rem.accounts[j].default_resource = name}}

\* the account was reset, before any delete call of the handle
ResetBeforeDelete(c, email) ==
    \E i \in 1..Len(c.calls) :
        /\ c.calls[i] = [api |-> "update_account_s3_access", arg |-> email, res |-> "ok"]
        /\ \A j \in 1..Len(c.calls) :
              c.calls[j].api = "delete_namespace_resource" => i < j

-----------------------------------------------------------------------------
(* C28.  Every update call of an account issued by a deletion pass carries *)
(* as the new default resource the name of a pool of resource type         *)
(* INTERNAL that the remote system lists.                                  *)

\* the names of the pools of resource type INTERNAL
InternalPools(rem) ==
    {rem.pools[i].name : i \in {j \in 1..Len(rem.pools) :
                                   rem.pools[j].resource_type = "INTERNAL"}}

C28_AsClaimed ==
    [][\A r \in Records :
          (/\ rc[r].pc = "UpdateAccount"
           /\ Len(rc'[r].calls) = Len(rc[r].calls) + 1)
          => rc[r].internalPool \in InternalPools(remote)]_vars

-----------------------------------------------------------------------------
(* C29.  In a deletion pass that found a matching connection, a delete     *)
(* call of the connection answered IN_USE is followed by FinalizeDeletion  *)
(* with no error, which removes the finalizer when its update of the       *)
(* record is accepted; a delete call answered by any other error, an RPC   *)
(* error with another code or an error that is no RPC error, ends the pass *)
(* with the finalizer left in the store.                                   *)

\* this step of r is the delete call of the connection, answered o
DeleteConnAnswered(r, o) ==
    /\ rc[r].pc = "DeleteConn"
    /\ Len(rc'[r].calls) = Len(rc[r].calls) + 1
    /\ rc'[r].calls[Len(rc'[r].calls)].res = o

C29_InUseTolerated ==
    /\ [][\A r \in Records :
            /\ DeleteConnAnswered(r, "IN_USE") =>
                  rc'[r].pc = "Finalize" /\ rc'[r].err = NoError
            /\ (/\ rc[r].pc = "Finalize"
                /\ HasCall(rc[r], "delete_external_connection", "IN_USE")
                /\ store'[r] # store[r])
               => rc'[r].finRemoved /\ Finalizer \notin store'[r].finalizers
            /\ (DeleteConnAnswered(r, "UNAUTHORIZED") \/ DeleteConnAnswered(r, "fail")) =>
                  rc'[r].pc = "UpdateStatus" /\ rc'[r].err # NoError]_vars
    /\ [](\A r \in Records :
            (\/ HasCall(rc[r], "delete_external_connection", "UNAUTHORIZED")
             \/ HasCall(rc[r], "delete_external_connection", "fail"))
            => /\ ~rc[r].finRemoved
               /\ Finalizer \in store[r].finalizers
               /\ rc[r].pc \in {"UpdateStatus", "done"})

\* a pass whose delete call of the connection was answered IN_USE has removed
\* the finalizer
C29_Witness ==
    \E r \in Records :
        /\ HasCall(rc[r], "delete_external_connection", "IN_USE")
        /\ rc[r].finRemoved

-----------------------------------------------------------------------------
(* C30.  A call for a record that is not being deleted sets Verifying      *)
(* first.  When it found the parent system missing it ends with a          *)
(* persistent error of reason MissingSystem, whether the secret is there   *)
(* or not, and issues no remote API call.  Connecting is set only second,  *)
(* in a call whose Verifying found the system and the secret; Creating is  *)
(* set only third, after Connecting, in a call whose read of the system    *)
(* info was answered and gave the connection parameters.                   *)

\* the call found what ReconcilePhaseVerifying asks for
VerifiedOk(c) == c.nb /\ ~(c.secret.name # "" /\ ~c.secret.uid)

C30_PhaseGates ==
    \A r \in Records :
        LET c == rc[r]
            tr == c.ns.trace
        IN  (~c.ns.deleting /\ tr # <<>>) =>
                /\ tr[1] = PhaseVerifying
                /\ ~c.nb =>
                      /\ c.err.kind = "persistent"
                      /\ c.err.reason = "MissingSystem"
                      /\ c.calls = <<>>
                      /\ c.pc \in {"UpdateStatus", "done"}
                /\ \A i \in 1..Len(tr) :
                      /\ tr[i] = PhaseConnecting => i = 2 /\ VerifiedOk(c)
                      /\ tr[i] = PhaseCreating =>
                            /\ i = 3
                            /\ tr[2] = PhaseConnecting
                            /\ HasCall(c, "read_system", "ok")
                            /\ c.create.set

\* a call that found neither the parent system nor the secret has returned,
\* rejected for the missing system
C30_Witness ==
    \E r \in Records :
        /\ Returned(rc[r])
        /\ ~rc[r].ns.deleting
        /\ ~rc[r].nb
        /\ rc[r].secret.name # "" /\ ~rc[r].secret.uid
        /\ rc[r].err.reason = "MissingSystem"
        /\ rc[r].ns.trace = <<PhaseVerifying, PhaseRejected>>

-----------------------------------------------------------------------------
(* C31.  A call that read the system info for a record that is not of the  *)
(* nsfs type ends with a persistent error exactly when the desired         *)
(* connection cannot be built, and the reason names the first fault found: *)
(* InvalidType for an unknown type, InvalidSignatureVersion for a version  *)
(* other than empty, v2 and v4, InvalidEndpoint for an endpoint url.Parse  *)
(* rejects, InvalidSecret for an identity or a secret with a character     *)
(* that is neither graphic nor a space.  The error leaves the record       *)
(* Rejected with no retry asked for, as the final status update finds it.  *)

S3Like == {NSStoreTypeS3Compatible, NSStoreTypeIBMCos}

\* the keys of the identity and the secret of a store type
IdentityKeys(type) ==
    CASE type = NSStoreTypeIBMCos -> <<"IBM_COS_ACCESS_KEY_ID", "IBM_COS_SECRET_ACCESS_KEY">>
      [] type = NSStoreTypeAzureBlob -> <<"AccountName", "AccountKey">>
      [] OTHER -> <<"AWS_ACCESS_KEY_ID", "AWS_SECRET_ACCESS_KEY">>

HasControlChar(str) == \E i \in 1..Len(str) : str[i] \in ControlChars

\* the reason of the first fault of a spec and a secret, "" when there is none
Fault(spec, data) ==
    IF spec.type \notin {NSStoreTypeAWSS3, NSStoreTypeAzureBlob} \cup S3Like
    THEN "InvalidType"
    ELSE IF spec.type \in S3Like /\ spec.signatureVersion \notin {"", "v2", "v4"}
    THEN "InvalidSignatureVersion"
    ELSE IF spec.type \in S3Like /\ ~spec.endpoint.parses
    THEN "InvalidEndpoint"
    ELSE IF \E i \in 1..2 :
               HasControlChar(fixAlternateKeysNames(data)[IdentityKeys(spec.type)[i]])
    THEN "InvalidSecret"
    ELSE ""

C31_DescriptorFaults ==
    \A r \in Records :
        LET c == rc[r]
            fault == Fault(c.ns.spec, c.secret.data)
        IN  (HasCall(c, "read_system", "ok") /\ c.ns.spec.type # NSStoreTypeNSFS) =>
                /\ fault = "" => c.err = NoError
                /\ fault # "" =>
                      /\ c.err.kind = "persistent"
                      /\ c.err.reason = fault
                      /\ c.pc \in {"UpdateStatus", "done"}
                      /\ c.pc = "UpdateStatus" =>
                            c.requeue = 0 /\ c.ns.phase = PhaseRejected

\* a call for a record whose secret holds a control character was rejected
C31_Witness ==
    /\ Returned(rc["ns1"])
    /\ rc["ns1"].err.reason = "InvalidSecret"
    /\ rc["ns1"].ns.spec.type = NSStoreTypeIBMCos
    /\ store["ns1"].phase = PhaseRejected

-----------------------------------------------------------------------------
(* C32.  In a Reconcile call, add_external_connection is issued only after *)
(* a check_external_connection call of the same call was answered with the *)
(* status SUCCESS; a call that found a matching connection issues neither  *)
(* call; and a call whose check was answered with another status or with   *)
(* an error issues no add_external_connection and no                       *)
(* create_namespace_resource call.                                         *)

C32_AddAfterCheck ==
    \A r \in Records :
        LET c == rc[r]
            n == Len(c.calls)
        IN  /\ \A j \in 1..n :
                  c.calls[j].api = "add_external_connection" =>
                      \E i \in 1..(j-1) :
                          /\ c.calls[i].api = "check_external_connection"
                          /\ c.calls[i].res = "SUCCESS"
            /\ (c.eci.set /\ ~c.ns.deleting) =>
                  /\ ~Issued(c, "check_external_connection")
                  /\ ~Issued(c, "add_external_connection")
            /\ (\E i \in 1..n : /\ c.calls[i].api = "check_external_connection"
                                /\ c.calls[i].res # "SUCCESS") =>
                  /\ ~Issued(c, "add_external_connection")
                  /\ ~Issued(c, "create_namespace_resource")

\* a call added the connection after its check succeeded, then created the handle
C32_Witness ==
    \E r \in Records :
        /\ HasCall(rc[r], "check_external_connection", "SUCCESS")
        /\ HasCall(rc[r], "add_external_connection", "ok")
        /\ HasCall(rc[r], "create_namespace_resource", "ok")

-----------------------------------------------------------------------------
(* C33.  A call that finds a resource handle with the name of the record   *)
(* whose endpoint type, endpoint or identity differs from the connection   *)
(* the spec asks for issues no create_namespace_resource and no            *)
(* delete_namespace_resource call, ends without error, and sets and        *)
(* publishes Ready when its status update is accepted.                     *)

\* the call of r found a handle that does not fit the connection it asks for
Drifted(r) ==
    /\ ~rc[r].ns.deleting
    /\ rc[r].nsr # ""
    /\ rc[r].add.set
    /\ \E i \in 1..Len(remote.namespace_resources) :
          /\ remote.namespace_resources[i].name = r
          /\ \/ remote.namespace_resources[i].endpoint_type # rc[r].add.endpoint_type
             \/ remote.namespace_resources[i].endpoint # rc[r].add.endpoint
             \/ remote.namespace_resources[i].identity # rc[r].add.identity

C33_DriftProceeds ==
    \A r \in Records :
        Drifted(r) =>
            /\ ~Issued(rc[r], "create_namespace_resource")
            /\ ~Issued(rc[r], "delete_namespace_resource")
            /\ rc[r].err = NoError
            /\ rc[r].pc \in {"UpdateStatus", "done"} => rc[r].ns.phase = PhaseReady
            /\ (Returned(rc[r]) /\ rc[r].published) => store[r].phase = PhaseReady

\* a call that found the handle of another endpoint has returned, the record Ready
C33_Witness ==
    /\ Drifted("ns1")
    /\ Returned(rc["ns1"])
    /\ rc["ns1"].published
    /\ store["ns1"].phase = PhaseReady
    /\ rc["ns1"].ns.trace = PhaseOrder

-----------------------------------------------------------------------------
(* C34.  A call whose final status update is not accepted returns a retry  *)
(* delay of 3 seconds and a nil error, whatever the phases or the deletion *)
(* gave: no error, a persistent error or a transient one.                  *)

\* this step of r is the final status update, and it was not accepted
StatusUpdateFailed(r) ==
    /\ rc[r].pc = "UpdateStatus"
    /\ rc'[r].pc = "done"
    /\ ~rc'[r].published

C34_FailedUpdateRequeues ==
    [][\A r \in Records :
          StatusUpdateFailed(r) =>
              /\ rc'[r].result = "returned"
              /\ rc'[r].requeue = RequeueSeconds
              /\ rc'[r].reterr = NoError
              /\ store'[r] = store[r]]_vars

\* a call rejected for a persistent error returned with the retry delay, its
\* status update refused
C34_Witness ==
    \E r \in Records :
        /\ Returned(rc[r])
        /\ rc[r].statusUpdates = 1
        /\ ~rc[r].published
        /\ IsPersistentError(rc[r].err)
        /\ rc[r].ns.phase = PhaseRejected
        /\ rc[r].requeue = RequeueSeconds

-----------------------------------------------------------------------------
(* C35.  A call for a record marked for deletion sets none of the phases   *)
(* Verifying, Connecting, Creating and Ready, and no step changes the      *)
(* stored phase of a record marked for deletion to one of them, or away    *)
(* from Deleting.                                                          *)

ForwardPhases == {PhaseVerifying, PhaseConnecting, PhaseCreating, PhaseReady}

C35_AsClaimed ==
    /\ [](\A r \in Records :
            rc[r].ns.deleting =>
                \A i \in 1..Len(rc[r].ns.trace) : rc[r].ns.trace[i] \notin ForwardPhases)
    /\ [][\A r \in Records :
            (store[r].deleting /\ store'[r].uid = "live"
                /\ store'[r].phase # store[r].phase)
            => /\ store'[r].phase \notin ForwardPhases
               /\ store[r].phase # PhaseDeleting]_vars

-----------------------------------------------------------------------------
(* C36.  A record marked for deletion, with the parent system live, every  *)
(* call answered with success and nothing in use, is eventually removed    *)
(* (its finalizer taken off), whatever its spec.                           *)

C36_AsClaimed ==
    \A r \in Records :
        (store[r].uid = "live" /\ store[r].deleting) ~> (store[r].uid = "gone")

-----------------------------------------------------------------------------
(* C37.  Whatever the interleaving of the Reconcile calls of two records,  *)
(* the remote system never lists two connections with the same endpoint    *)
(* type, endpoint and identity.                                            *)

C37_AsClaimed ==
    LET conns == AllConnections(remote.accounts)
    IN  \A i, j \in 1..Len(conns) : Twin(conns[i], conns[j]) => i = j

-----------------------------------------------------------------------------
(* A record that carries a finalizer of its owner besides the operator's:  *)
(* it stays in the cluster, marked for deletion, until both are removed.   *)

OwnerFinalizer == "foregroundDeletion"

InitOwned ==
    /\ store = [r \in Records |->
                  IF r = "ns1"
                  THEN [NewRecord(SpecS3) EXCEPT !.finalizers = {OwnerFinalizer}]
                  ELSE NoRecord]
    /\ nooBaa = TRUE
    /\ secrets = [sn \in SecretNames |-> [uid |-> TRUE, data |-> KeyData]]
    /\ now = 0
    /\ remote = FreshRemote
    /\ rc = [r \in Records |-> IdleRC]
    /\ hist = [r \in Records |-> NoHistory(store[r].uid = "live")]
    /\ OthersIdle

\* the owner of the record removes its own finalizer
EnvOwnerReleases(r) ==
    /\ ~Returning
    /\ store[r].uid = "live"
    /\ OwnerFinalizer \in store[r].finalizers
    /\ store' = AfterUpdate(r, [store[r] EXCEPT !.finalizers = @ \ {OwnerFinalizer}])
    /\ rc' = Stale(rc, r)
    /\ hist' = [hist EXCEPT ![r].okQuiet = FALSE, ![r].wanted = TRUE]
    /\ UNCHANGED <<others, nooBaa, secrets, now, remote>>

StepsOwned(r) ==
    \/ Start(r, TRUE, "ok")
    \/ KubeUpdateMeta(r, "ok")
    \/ CheckSystem(r, "ok")
    \/ LoadSecret(r, "ok")
    \/ ReadSystem(r, "ok")
    \/ CheckConn(r, "SUCCESS")
    \/ AddConn(r, "ok")
    \/ CreateResource(r, "ok")
    \/ DelUpdateStatus(r, "ok")
    \/ DeleteResource(r, "ok")
    \/ DeleteConn(r, "ok")
    \/ Finalize(r, "ok")
    \/ UpdateStatus(r, "ok")
    \/ Drop(r)

NextOwned ==
    \/ StepsOwned("ns1")
    \/ EnvMarkDeleted("ns1")
    \/ EnvOwnerReleases("ns1")

SpecOwned == InitOwned /\ [][NextOwned]_vars

\* Reconcile of r starts in this step
Starts(r) == rc[r].pc = "idle" /\ rc'[r].pc # "idle"

\* C38: Reconcile never adds the finalizer to a record marked for deletion,
\* neither to the record it loaded nor to the stored one, and so never adds
\* it back after a deletion pass removed it while the record still exists.
C38_AsClaimed ==
    [][\A r \in Records :
          /\ (Starts(r) /\ store[r].uid = "live" /\ store[r].deleting
                => (Finalizer \in rc'[r].ns.finalizers
                      => Finalizer \in store[r].finalizers))
          /\ (store[r].deleting /\ store'[r].uid = "live"
                => (Finalizer \in store'[r].finalizers
                      => Finalizer \in store[r].finalizers))]_vars

\* the remote calls about external connections
ConnectionApis ==
    {"check_external_connection", "add_external_connection", "delete_external_connection"}

\* the remote calls a forward pass and a deletion pass of an nsfs record may issue
NSFSApis(deleting) ==
    IF deleting
    THEN {"read_system", "update_account_s3_access", "delete_namespace_resource"}
    ELSE {"read_system", "create_namespace_resource"}

\* C39: a Reconcile call of a record of the nsfs type issues no check, add or
\* delete connection call. Its forward pass only reads the system and creates
\* the resource, and that only when no handle was found; its deletion pass
\* only reads the system, detaches accounts and deletes the resource; the
\* read of the system ends with no descriptor error; and no connection is
\* ever registered in the remote system.
C39_LocalFilesystem ==
    \A r \in Records :
        LET c == rc[r]
        IN  (store[r].spec.type = NSStoreTypeNSFS /\ c.pc # "idle") =>
                /\ \A i \in 1..Len(c.calls) :
                      /\ c.calls[i].api \notin ConnectionApis
                      /\ c.calls[i].api \in NSFSApis(c.ns.deleting)
                /\ Issued(c, "create_namespace_resource") => c.nsr = ""
                /\ HasCall(c, "read_system", "ok") => c.err = NoError
                /\ c.pc \notin {"CheckConn", "AddConn", "DeleteConn"}
                /\ ConnCount(remote) = 0

\* the deletion pass of an nsfs record has detached an account, deleted the
\* resource and removed the finalizer
C39_Witness ==
    \E r \in Records :
        /\ store[r].spec.type = NSStoreTypeNSFS
        /\ Issued(rc[r], "update_account_s3_access")
        /\ HasCall(rc[r], "delete_namespace_resource", "ok")
        /\ rc[r].finRemoved

-----------------------------------------------------------------------------
(* C40: what the high-availability Reconcile deletes and what it does when *)
(* the pods cannot be listed.                                              *)

\* the pods this step deletes
DeletedPods == hac.pods \ hac'.pods

\* only pods with the label, in the watched namespace and on the node of the
\* running call are deleted, and only by a call for a node that is NotReady
OnlyNoobaaPodsOfNode ==
    \A pod \in DeletedPods :
        /\ hac.pc = "delete"
        /\ ~hac.ready[hac.node]
        /\ pod.app = "noobaa"
        /\ pod.namespace = Namespace
        /\ pod.node = hac.node

\* the list call of the running call was answered with an error
ListFailed(h) == h.answer \notin {"", "ok"}

\* C40 as stated: only noobaa pods of the failed node in the watched namespace
\* are deleted, and a call whose list call failed deletes no pod and is
\* returned with an error.
C40_AsClaimed ==
    [][/\ OnlyNoobaaPodsOfNode
       /\ (ListFailed(hac) \/ ListFailed(hac')) => DeletedPods = {}
       /\ (hac.pc = "list" /\ ListFailed(hac')) => (hac'.pc = "done" /\ hac'.err)]_vars

\* C40, amended: only noobaa pods of the failed node in the watched namespace
\* are deleted; a call whose list call failed deletes no pod, and it is
\* returned with an error when the failure is a missing kind, a not-found or
\* a conflict answer, while on any other failure it panics and returns nothing.
C40_ListFailure ==
    [][/\ OnlyNoobaaPodsOfNode
       /\ (ListFailed(hac) \/ ListFailed(hac')) => DeletedPods = {}
       /\ (hac.pc = "list" /\ ListFailed(hac')) =>
              IF hac'.answer \in {"NoMatch", "NotFound", "Conflict"}
              THEN hac'.pc = "done" /\ hac'.err
              ELSE hac'.pc = "panicked" /\ ~hac'.err]_vars

\* a call for node n1 deleted the pod core and left the others, and the list
\* call of the next call for the node was refused: the call panicked with
\* no error returned
C40_Witness ==
    /\ hac.node = "n1"
    /\ hac.answer = "Forbidden"
    /\ hac.pc = "panicked"
    /\ ~hac.err
    /\ hac.pods = {PodPool[2], PodPool[3], PodPool[4], PodPool[5]}

====
